---- MODULE Spec2Model ----
(***************************************************************************)
(* On-call scheduler (app.py): the monthly priority rotation store, the    *)
(* multi-pass assignment simulator, schedule generation and the what-if    *)
(* analysis, modelled over the rows of the Team / Engineer / Holiday       *)
(* tables.                                                                 *)
(*                                                                         *)
(* Encodings.  A month string "YYYY-MM" is the integer YYYYMM and a date   *)
(* string "YYYY-MM-DD" the integer YYYYMMDD: both are zero padded in the   *)
(* program, so string comparison (m < month_str, sorted(...)) is integer   *)
(* comparison, day.startswith(month_str) is day \div 100 = month_str and   *)
(* map(int, month_str.split('-')) is (m \div 100, m % 100).  Python lists  *)
(* are sequences; a dict is a function whose DOMAIN is its key set.        *)
(***************************************************************************)
EXTENDS Integers, Sequences, FiniteSets, TLC

\* ------------------------------------------------------------------ bounds
NumMonths == 3
MaxPrefs == 2
MaxShiftsBound == 2
MaxGroupSize == 2
MaxHolidays == 3

\* --------------------------------------------------------- program constants
DefaultMaxShifts == 2
DefaultShiftsPerDay == 1
WhatIfDefaultMaxShifts == 2

\* ------------------------------------------------------------- input sets
Teams == {"T1", "T2"}
Names == {"A", "B", "C", "a"}
NoTeam == "none"
NoMonth == 0

\* The i-th month of the model, counted from 2025-10 (the month of test_03).
MonthAt(i) == (2025 + ((9 + i) \div 12)) * 100 + ((9 + i) % 12) + 1
Months == {MonthAt(i) : i \in 0..(NumMonths - 1)}

\* ---------------------------------------------------------------- helpers
Range(s) == {s[i] : i \in DOMAIN s}
Contains(s, x) == \E i \in DOMAIN s : s[i] = x
Flatten(groups) ==
    LET RECURSIVE F(_)
        F(i) == IF i > Len(groups) THEN <<>> ELSE groups[i] \o F(i + 1)
    IN F(1)
\* sorted(list(S)) for a set of integers
SortedSeq(S) ==
    LET RECURSIVE F(_)
        F(R) == IF R = {} THEN <<>>
                ELSE LET lo == CHOOSE x \in R : \A y \in R : x <= y
                     IN <<lo>> \o F(R \ {lo})
    IN F(S)
IndexOf(s, x) == CHOOSE i \in DOMAIN s : s[i] = x
SetMax(S) == IF S = {} THEN 0 ELSE CHOOSE x \in S : \A y \in S : y <= x
Perms(S) == {p \in [1..Cardinality(S) -> S] : \A i, j \in DOMAIN p : p[i] = p[j] => i = j}

VARIABLES
    teams,              \* Team rows: the set of team names
    team_id,            \* Engineer.team_id by engineer name (NoTeam: no such row)
    maxShifts,          \* Engineer.maxShifts
    consecutive_pref,   \* Engineer.consecutive_pref
    preferences,        \* Engineer.preferences: month -> list of dates (a dict)
    baseGroups,         \* Team.baseGroups
    monthlyPriorities,  \* Team.monthlyPriorities: month -> groups (a dict)
    assignments,        \* Team.assignments: date -> list of names (a dict)
    shifts_per_day,     \* Team.shifts_per_day
    shift_overrides,    \* Team.shift_overrides: date -> count (a dict)
    holidays,           \* Holiday rows: set of [date, note]
    live_preferences,   \* Engineer.preferences as held by the objects of the
                        \* session of the last request, before its teardown
    last,               \* the last request served and what it returned
    sim,                \* the locals of a run of run_schedule_simulation
    cal,                \* a direct call of get_on_call_days_pure: arguments and outcome
    reqs                \* the requests in progress: what each has loaded so far

dbvars == <<teams, team_id, maxShifts, consecutive_pref, preferences, baseGroups,
            monthlyPriorities, assignments, shifts_per_day, shift_overrides, holidays>>
vars == <<dbvars, live_preferences, last, sim, cal, reqs>>

EmptyDict == <<>>
Put(d, k, v) == [x \in (DOMAIN d) \cup {k} |-> IF x = k THEN v ELSE d[x]]
Drop(d, K) == [x \in (DOMAIN d) \ K |-> d[x]]

Engineers == {n \in Names : team_id[n] # NoTeam}
TeamEngineers(t) == {n \in Names : team_id[n] = t}

\* -------------------------------------------------- Priority Rotation Store
\* (mutant) the groups change places but no group's members do
RotateGroupsOuterOnly(groups) ==
    IF groups = <<>> THEN <<>> ELSE Tail(groups) \o <<Head(groups)>>

\* rotated_name_groups.append(rotated_name_groups.pop(0)), then for every
\* non-empty group: group.append(group.pop(0))
RotateGroups(groups) ==
    IF groups = <<>> THEN <<>>
    ELSE LET moved == Tail(groups) \o <<Head(groups)>>
         IN [i \in 1..Len(moved) |->
                IF moved[i] = <<>> THEN <<>> ELSE Tail(moved[i]) \o <<Head(moved[i])>>]

\* [[name for name in group if name in all_engineers_map and
\*   all_engineers_map[name].team_id == team.id] for group in groups]
FilterGroups(groups, t, tid) ==
    [i \in 1..Len(groups) |-> SelectSeq(groups[i], LAMBDA n : tid[n] = t)]

\* (mutant) the sort is not reversed: the earliest stored month is taken
LastMonthBeforeUnreversed(mp, m) ==
    LET earlier == {k \in DOMAIN mp : k < m}
    IN IF earlier = {} THEN NoMonth ELSE CHOOSE x \in earlier : \A y \in earlier : x <= y

\* sorted([m for m in monthly_priorities.keys() if m < month_str], reverse=True)[0]
LastMonthBefore(mp, m) ==
    LET earlier == {k \in DOMAIN mp : k < m}
    IN IF earlier = {} THEN NoMonth ELSE SetMax(earlier)

\* (mutant) every month is rotated from baseGroups
RotationBaseAlwaysBaseGroups(mp, base, m) ==
    IF base # <<>> THEN base ELSE << <<>> >>

\* last_month_order or team.baseGroups or [[]]
RotationBase(mp, base, m) ==
    LET lm == LastMonthBefore(mp, m)
        last_month_order == IF lm = NoMonth THEN <<>> ELSE mp[lm]
    IN IF last_month_order # <<>> THEN last_month_order
       ELSE IF base # <<>> THEN base ELSE << <<>> >>

\* the value stored on a cache miss
RotatedNameGroups(mp, base, t, tid, m) ==
    RotateGroups(FilterGroups(RotationBase(mp, base, m), t, tid))

Reply(op, t, m, ret, wrote, status) ==
    [op |-> op, team |-> t, month |-> m, ret |-> ret, wrote |-> wrote, status |-> status]

\* The simulator's locals when no run is in progress
SimIdle == [pc |-> "idle"]
\* No direct call of the calendar function is in progress
CalIdle == [pc |-> "idle"]
\* The requests that may be in progress at once, none of them begun
Reqs == {1, 2}
NoRequests == [r \in Reqs |-> [pc |-> "idle"]]

\* The end of a request: the response goes out and the session is torn down.
\* Every handler but analyze_chances leaves the session's objects equal to the rows.
Served(reply) ==
    /\ last' = reply
    /\ live_preferences' = preferences'
    /\ UNCHANGED <<sim, cal, reqs>>

\* if month_str not in monthly_priorities
CacheMiss(mp, m) == m \notin DOMAIN mp

\* (mutant) a stored month is rotated once more on every call
SavedPrioritiesRotatedAgain(mp, base, t, tid, m) ==
    IF CacheMiss(mp, m)
    THEN Put(mp, m, RotatedNameGroups(mp, base, t, tid, m))
    ELSE Put(mp, m, RotateGroups(mp[m]))

\* (mutant) a stored month is computed and stored again
SavedPrioritiesRecomputed(mp, base, t, tid, m) ==
    Put(mp, m, RotatedNameGroups(Drop(mp, {m}), base, t, tid, m))

\* team.monthlyPriorities after _calculate_monthly_priorities_and_save
SavedPriorities(mp, base, t, tid, m) ==
    IF CacheMiss(mp, m)
    THEN Put(mp, m, RotatedNameGroups(mp, base, t, tid, m))
    ELSE mp

\* its return value, as name groups:
\* [[all_engineers_map[name] for name in group if name in all_engineers_map] ...]
ReturnedGroups(mp, tid, m) ==
    [i \in 1..Len(mp[m]) |-> SelectSeq(mp[m][i], LAMBDA n : tid[n] # NoTeam)]

\* _calculate_monthly_priorities_and_save(team, all_engineers_map, month_str)
ResolvePriority(t, m) ==
    /\ t \in teams
    /\ LET saved == SavedPriorities(monthlyPriorities[t], baseGroups[t], t, team_id, m)
       IN monthlyPriorities' = [monthlyPriorities EXCEPT ![t] = saved]
    /\ UNCHANGED <<teams, team_id, maxShifts, consecutive_pref, preferences, baseGroups,
                   assignments, shifts_per_day, shift_overrides, holidays>>
    /\ Served(Reply("resolve", t, m, ReturnedGroups(monthlyPriorities'[t], team_id, m),
                    CacheMiss(monthlyPriorities[t], m), 200))

\* ------------------------------------------------------- Calendar Resolver
IsLeap(y) == (y % 4 = 0) /\ ((y % 100 # 0) \/ (y % 400 = 0))
DaysInMonth(y, mo) ==
    IF mo = 2 THEN (IF IsLeap(y) THEN 29 ELSE 28)
    ELSE IF mo \in {4, 6, 9, 11} THEN 30 ELSE 31
\* date(y, mo, d).toordinal(): days since 0001-01-01, that day being 1
Ordinal(y, mo, d) ==
    LET RECURSIVE Before(_)
        Before(k) == IF k = 0 THEN 0 ELSE DaysInMonth(y, k) + Before(k - 1)
        py == y - 1
    IN py * 365 + (py \div 4) - (py \div 100) + (py \div 400) + Before(mo - 1) + d
\* date.weekday(): Monday is 0, Sunday is 6
Weekday(y, mo, d) == (Ordinal(y, mo, d) + 6) % 7
\* d.strftime('%Y-%m-%d')
DateStr(y, mo, d) == y * 10000 + mo * 100 + d
\* day.startswith(month_str)
StartsWith(day, month_str) == day \div 100 = month_str

\* (mutant) every listed holiday is returned, whatever its month
OnCallDaysWithAllHolidays(month_str, holidays_list) ==
    LET year == month_str \div 100
        month == month_str % 100
        holiday_dates == {h.date : h \in holidays_list}
        days == {DateStr(year, month, d) : d \in
                   {d \in 1..DaysInMonth(year, month) : Weekday(year, month, d) >= 5}}
    IN SortedSeq(days \cup holiday_dates)

\* get_on_call_days_pure(year, month, holidays_list), of the month month_str
OnCallDays(month_str, holidays_list) ==
    LET year == month_str \div 100
        month == month_str % 100
        holiday_dates == {h.date : h \in holidays_list}
        days == {DateStr(year, month, d) : d \in
                   {d \in 1..DaysInMonth(year, month) :
                       \/ Weekday(year, month, d) >= 5
                       \/ DateStr(year, month, d) \in holiday_dates}}
    IN SortedSeq(days)

\* A holiday item is a dict with the key 'date' (Holiday.to_dict) or a plain date
\* string, written [text |-> d]: h['date'] on a string raises TypeError.
PlainString(d) == [text |-> d]
HasDateKey(h) == "date" \in DOMAIN h

\* get_on_call_days_pure(year, month, holidays_list) with its outcome: the list, or
\* the TypeError of holiday_dates = {h['date'] for h in holidays_list}
GetOnCallDaysPure(year, month, holidays_list) ==
    IF \E i \in DOMAIN holidays_list : ~HasDateKey(holidays_list[i])
    THEN [raised |-> TRUE, days |-> <<>>]
    ELSE [raised |-> FALSE,
          days |-> OnCallDays(year * 100 + month,
                              {holidays_list[i] : i \in DOMAIN holidays_list})]

\* ---------------------------------------------------- Assignment Simulator
\* [e.to_dict() for e in Engineer.query.all()], keyed by name
EngineersData ==
    [n \in Engineers |-> [team |-> team_id[n], maxShifts |-> maxShifts[n],
                          preferences |-> preferences[n],
                          consecutive_pref |-> consecutive_pref[n]]]
\* [t.to_dict() for t in Team.query.all()], keyed by name
TeamsData ==
    [t \in teams |-> [baseGroups |-> baseGroups[t],
                      monthlyPriorities |-> monthlyPriorities[t],
                      shifts_per_day |-> shifts_per_day[t],
                      shift_overrides |-> shift_overrides[t]]]
\* the order of Team.query.all(): the rows in the order of their names
TeamOrder == <<"T1", "T2">>
TeamRows == SelectSeq(TeamOrder, LAMBDA t : t \in teams)

NoTemp == [engineer |-> "", preferences |-> <<>>, maxShifts |-> 0]
\* d.get(k, default)
Get(d, k, default) == IF k \in DOMAIN d THEN d[k] ELSE default

\* all_engineers_map after the temp_engineer_prefs block
WorkingEngineers(engineers_data, month_str, temp) ==
    IF temp # NoTemp /\ temp.engineer \in DOMAIN engineers_data
    THEN [engineers_data EXCEPT ![temp.engineer] =
             [@ EXCEPT !.preferences = Put(@, month_str, temp.preferences),
                       !.maxShifts = temp.maxShifts]]
    ELSE engineers_data

\* priority_groups_names of one team
PriorityGroupsNames(team_name, team_dict, engs, month_str) ==
    LET tid == [n \in Names |-> IF n \in DOMAIN engs THEN engs[n].team ELSE NoTeam]
        monthly_priorities == team_dict.monthlyPriorities
    IN IF month_str \notin DOMAIN monthly_priorities
       THEN RotatedNameGroups(monthly_priorities, team_dict.baseGroups, team_name, tid,
                              month_str)
       ELSE monthly_priorities[month_str]

\* monthly_priority_list, as names
MonthlyPriorityList(team_name, team_dict, engs, month_str) ==
    SelectSeq(Flatten(PriorityGroupsNames(team_name, team_dict, engs, month_str)),
              LAMBDA n : n \in DOMAIN engs)

\* (mutant) the per-date override is ignored
ShiftsNeededDefaultOnly(team_dict, day) == team_dict.shifts_per_day

\* shift_overrides.get(preferred_day, default_shifts_needed)
ShiftsNeeded(team_dict, day) == Get(team_dict.shift_overrides, day, team_dict.shifts_per_day)

\* is_slot_available, once preferred_day is known to be a key
SlotAvailable(ta, team_dict, day) == Len(ta[day]) < ShiftsNeeded(team_dict, day)

\* (mutant) the engineer's own presence on the day is not checked
AlreadyAssignedUnchecked(ta, day, name) == FALSE

\* is_already_assigned
AlreadyAssigned(ta, day, name) == Contains(ta[day], name)

\* (mutant) the cap test is off by one
BelowCapInclusive(count, max_shifts) == count <= max_shifts

\* if shifts_assigned_count[engineer['name']] < engineer.get('maxShifts', 0)
BelowCap(count, max_shifts) == count < max_shifts

\* (mutant) only the on-call day before is looked at
AssignedAdjacentBeforeOnly(name, ta, on_call_days, day) ==
    LET day_index == IndexOf(on_call_days, day)
    IN day_index > 1 /\ Contains(ta[on_call_days[day_index - 1]], name)

\* is_assigned_adjacent
AssignedAdjacent(name, ta, on_call_days, day) ==
    LET day_index == IndexOf(on_call_days, day)
    IN \/ day_index > 1 /\ Contains(ta[on_call_days[day_index - 1]], name)
       \/ day_index < Len(on_call_days) /\ Contains(ta[on_call_days[day_index + 1]], name)

\* (mutant) the scan stops at the first date that is full or already the engineer's
ScanPreferencesStopAtFull(name, eng, prefs, i, st, team_dict, on_call_days) ==
    IF i > Len(prefs) THEN st
    ELSE IF prefs[i] \notin DOMAIN st.ta THEN [st EXCEPT !.err = TRUE]
    ELSE IF /\ Len(st.ta[prefs[i]]) < Get(team_dict.shift_overrides, prefs[i],
                                          team_dict.shifts_per_day)
            /\ \A k \in DOMAIN st.ta[prefs[i]] : st.ta[prefs[i]][k] # name
         THEN [st EXCEPT !.ta[prefs[i]] = Append(@, name), !.cnt[name] = @ + 1]
         ELSE st

\* The scan for preferred_day in preferences, from position i on.  st is
\* [ta: team_assignments_this_month, cnt: shifts_assigned_count, err: a KeyError
\* was raised].
RECURSIVE ScanPreferences(_, _, _, _, _, _, _)
ScanPreferences(name, eng, prefs, i, st, team_dict, on_call_days) ==
    IF i > Len(prefs) THEN st
    ELSE LET day == prefs[i] IN
         IF day \notin DOMAIN st.ta
         THEN [st EXCEPT !.err = TRUE]   \* team_assignments_this_month[preferred_day]
         ELSE IF SlotAvailable(st.ta, team_dict, day) /\ ~AlreadyAssigned(st.ta, day, name)
              THEN IF /\ eng.consecutive_pref = "avoid"
                      /\ AssignedAdjacent(name, st.ta, on_call_days, day)
                   THEN ScanPreferences(name, eng, prefs, i + 1, st, team_dict, on_call_days)
                   ELSE [st EXCEPT !.ta[day] = Append(@, name), !.cnt[name] = @ + 1]
              ELSE ScanPreferences(name, eng, prefs, i + 1, st, team_dict, on_call_days)

\* The body of the loop over monthly_priority_list for one engineer
VisitEngineer(name, st, engs, team_dict, month_str, on_call_days) ==
    IF st.err THEN st
    ELSE IF name \notin DOMAIN st.cnt THEN [st EXCEPT !.err = TRUE]
    ELSE IF BelowCap(st.cnt[name], engs[name].maxShifts)
         THEN ScanPreferences(name, engs[name], Get(engs[name].preferences, month_str, <<>>),
                              1, st, team_dict, on_call_days)
         ELSE st

\* (mutant) the pass visits the engineers from the last ranked to the first
RunPassReversed(st, plist, engs, team_dict, month_str, on_call_days) ==
    LET RECURSIVE F(_, _)
        F(i, s) == IF i < 1 THEN s
                   ELSE F(i - 1, VisitEngineer(plist[i], s, engs, team_dict, month_str,
                                               on_call_days))
    IN F(Len(plist), st)

\* The states of one pass: the i-th is the state in which plist[i] is visited, the
\* last the state the pass ends in
PassStates(st, plist, engs, team_dict, month_str, on_call_days) ==
    LET RECURSIVE F(_)
        F(i) == IF i = 1 THEN st
                ELSE VisitEngineer(plist[i - 1], F(i - 1), engs, team_dict, month_str,
                                   on_call_days)
    IN [i \in 1..(Len(plist) + 1) |-> F(i)]

\* One pass: the loop over monthly_priority_list
RunPass(st, plist, engs, team_dict, month_str, on_call_days) ==
    LET RECURSIVE F(_, _)
        F(i, s) == IF i > Len(plist) THEN s
                   ELSE F(i + 1, VisitEngineer(plist[i], s, engs, team_dict, month_str,
                                               on_call_days))
    IN F(1, st)

\* max_shifts_requested
MaxShiftsRequested(team_name, engs) ==
    SetMax({engs[n].maxShifts : n \in {x \in DOMAIN engs : engs[x].team = team_name}})

\* The team's state before its first pass
TeamStart(team_name, engs, on_call_days) ==
    [ta |-> [d \in Range(on_call_days) |-> <<>>],
     cnt |-> [n \in {x \in DOMAIN engs : engs[x].team = team_name} |-> 0],
     err |-> FALSE]

\* The team's state after n passes
RECURSIVE AfterPasses(_, _, _, _, _, _)
AfterPasses(n, team_name, team_dict, engs, month_str, on_call_days) ==
    IF n = 0 THEN TeamStart(team_name, engs, on_call_days)
    ELSE RunPass(AfterPasses(n - 1, team_name, team_dict, engs, month_str, on_call_days),
                 MonthlyPriorityList(team_name, team_dict, engs, month_str),
                 engs, team_dict, month_str, on_call_days)

\* (mutant) only days with somebody on them are kept
ExtendNonEmpty(final, ta) ==
    LET all == [d \in (DOMAIN final) \cup (DOMAIN ta) |->
                   Get(final, d, <<>>) \o Get(ta, d, <<>>)]
    IN [d \in {x \in DOMAIN all : all[x] # <<>>} |-> all[d]]

\* final_assignments.setdefault(day, []).extend(names) for every day
Extend(final, ta) ==
    [d \in (DOMAIN final) \cup (DOMAIN ta) |-> Get(final, d, <<>>) \o Get(ta, d, <<>>)]

NoResult == [raised |-> TRUE, final |-> <<>>]

\* run_schedule_simulation(month_str, teams_data, engineers_data, holidays_data,
\* temp_engineer_prefs): [raised, final_assignments]
RunScheduleSimulation(month_str, rows, teams_data, engineers_data, holidays_data, temp) ==
    LET on_call_days == OnCallDays(month_str, holidays_data)
        engs == WorkingEngineers(engineers_data, month_str, temp)
        RECURSIVE F(_, _)
        F(i, final) ==
            IF i > Len(rows) THEN [raised |-> FALSE, final |-> final]
            ELSE IF {x \in DOMAIN engs : engs[x].team = rows[i]} = {} THEN F(i + 1, final)
            ELSE LET st == AfterPasses(MaxShiftsRequested(rows[i], engs), rows[i],
                                       teams_data[rows[i]], engs, month_str, on_call_days)
                 IN IF st.err THEN NoResult ELSE F(i + 1, Extend(final, st.ta))
    IN F(1, [d \in Range(on_call_days) |-> <<>>])

\* ------------------------------------------------------------ roster edits
\* POST /api/teams
CreateTeam(t) ==
    /\ t \notin teams
    /\ teams' = teams \cup {t}
    /\ baseGroups' = [baseGroups EXCEPT ![t] = << <<>> >>]
    /\ monthlyPriorities' = [monthlyPriorities EXCEPT ![t] = EmptyDict]
    /\ assignments' = [assignments EXCEPT ![t] = EmptyDict]
    /\ shifts_per_day' = [shifts_per_day EXCEPT ![t] = DefaultShiftsPerDay]
    /\ shift_overrides' = [shift_overrides EXCEPT ![t] = EmptyDict]
    /\ UNCHANGED <<team_id, maxShifts, consecutive_pref, preferences, holidays>>
    /\ Served(Reply("create_team", t, NoMonth, <<>>, FALSE, 200))

\* min(base_groups, key=len): the first group of least length
SmallestGroup(groups) ==
    CHOOSE i \in DOMAIN groups :
        /\ \A j \in DOMAIN groups : Len(groups[i]) <= Len(groups[j])
        /\ \A j \in 1..(i - 1) : Len(groups[j]) > Len(groups[i])

\* (mutant) the name is appended to every group
GroupsWithNewEngineerEverywhere(groups, name) ==
    [i \in DOMAIN groups |-> Append(groups[i], name)]

\* base_groups after smallest_group.append(name)
GroupsWithNewEngineer(groups, name) ==
    LET base_groups == IF groups = <<>> \/ groups[1] = <<>> THEN << <<>> >> ELSE groups
        k == SmallestGroup(base_groups)
    IN [base_groups EXCEPT ![k] = Append(@, name)]

\* str.lower() and SQL lower() on the names in use
Lower(name) == [A |-> "a", B |-> "b", C |-> "c", a |-> "a"][name]

\* (mutant) the existing names are compared as they are written
NameTakenExactly(name) == name \in Engineers

\* Engineer.query.filter(db.func.lower(Engineer.name) == name.lower()).first()
NameTaken(name) == \E e \in Engineers : Lower(e) = Lower(name)

\* POST /api/engineers: 409 for a name in use (letter case ignored), 400 for a team
\* that does not exist, else the engineer joins the team's smallest group; the
\* observation keeps the name as ret
AddEngineer(name, t) ==
    IF NameTaken(name)
    THEN /\ UNCHANGED dbvars
         /\ Served(Reply("add_engineer", t, NoMonth, name, FALSE, 409))
    ELSE IF t \notin teams
    THEN /\ UNCHANGED dbvars
         /\ Served(Reply("add_engineer", t, NoMonth, name, FALSE, 400))
    ELSE /\ team_id' = [team_id EXCEPT ![name] = t]
         /\ maxShifts' = [maxShifts EXCEPT ![name] = DefaultMaxShifts]
         /\ consecutive_pref' = [consecutive_pref EXCEPT ![name] = "neutral"]
         /\ preferences' = [preferences EXCEPT ![name] = EmptyDict]
         /\ baseGroups' = [baseGroups EXCEPT ![t] = GroupsWithNewEngineer(@, name)]
         /\ monthlyPriorities' = [monthlyPriorities EXCEPT ![t] = EmptyDict]
         /\ UNCHANGED <<teams, assignments, shifts_per_day, shift_overrides, holidays>>
         /\ Served(Reply("add_engineer", t, NoMonth, name,
                         monthlyPriorities[t] # EmptyDict, 200))

\* new_base_groups = [[n for n in g if n != name] for g in team.baseGroups]
GroupsWithoutEngineer(groups, name) ==
    [i \in 1..Len(groups) |-> SelectSeq(groups[i], LAMBDA n : n # name)]

\* (mutant) the delete keeps the team's stored months
DeleteEngineerKeepingCache(name) ==
    /\ team_id[name] # NoTeam
    /\ LET t == team_id[name]
       IN /\ baseGroups' = [baseGroups EXCEPT ![t] = GroupsWithoutEngineer(@, name)]
          /\ team_id' = [team_id EXCEPT ![name] = NoTeam]
          /\ maxShifts' = [maxShifts EXCEPT ![name] = DefaultMaxShifts]
          /\ consecutive_pref' = [consecutive_pref EXCEPT ![name] = "neutral"]
          /\ preferences' = [preferences EXCEPT ![name] = EmptyDict]
          /\ UNCHANGED <<teams, monthlyPriorities, assignments, shifts_per_day,
                         shift_overrides, holidays>>
          /\ Served(Reply("delete_engineer", t, NoMonth, <<>>,
                          monthlyPriorities[t] # EmptyDict, 200))

\* DELETE /api/engineers/<name>
DeleteEngineer(name) ==
    /\ team_id[name] # NoTeam
    /\ LET t == team_id[name]
       IN /\ baseGroups' = [baseGroups EXCEPT ![t] = GroupsWithoutEngineer(@, name)]
          /\ monthlyPriorities' = [monthlyPriorities EXCEPT ![t] = EmptyDict]
          /\ team_id' = [team_id EXCEPT ![name] = NoTeam]
          /\ maxShifts' = [maxShifts EXCEPT ![name] = DefaultMaxShifts]
          /\ consecutive_pref' = [consecutive_pref EXCEPT ![name] = "neutral"]
          /\ preferences' = [preferences EXCEPT ![name] = EmptyDict]
          /\ UNCHANGED <<teams, assignments, shifts_per_day, shift_overrides, holidays>>
          /\ Served(Reply("delete_engineer", t, NoMonth, <<>>,
                          monthlyPriorities[t] # EmptyDict, 200))

\* new_groups[i % num_groups].append(engineer_name) over the shuffled names
DealIntoGroups(shuffled, group_size) ==
    LET n == Len(shuffled)
        num_groups == IF group_size > 0 THEN (n + group_size - 1) \div group_size ELSE 1
    IN IF num_groups = 0 \/ n = 0 THEN << <<>> >>
       ELSE [g \in 1..num_groups |->
                SelectSeq(shuffled, LAMBDA x : (IndexOf(shuffled, x) - 1) % num_groups = g - 1)]

\* (mutant) the rebalance keeps the team's stored months
RebalanceTeamsKeepingCache(t, group_size, shuffled) ==
    /\ t \in teams
    /\ shuffled \in Perms(TeamEngineers(t))
    /\ baseGroups' = [baseGroups EXCEPT ![t] = DealIntoGroups(shuffled, group_size)]
    /\ UNCHANGED <<teams, team_id, maxShifts, consecutive_pref, preferences, monthlyPriorities,
                   assignments, shifts_per_day, shift_overrides, holidays>>
    /\ Served(Reply("rebalance", t, NoMonth, <<>>, monthlyPriorities[t] # EmptyDict, 200))

\* POST /api/rebalance-teams; random.shuffle is any permutation of the roster; the
\* observation's wrote tells whether the team had stored months to clear
RebalanceTeams(t, group_size, shuffled) ==
    /\ t \in teams
    /\ shuffled \in Perms(TeamEngineers(t))
    /\ baseGroups' = [baseGroups EXCEPT ![t] = DealIntoGroups(shuffled, group_size)]
    /\ monthlyPriorities' = [monthlyPriorities EXCEPT ![t] = EmptyDict]
    /\ UNCHANGED <<teams, team_id, maxShifts, consecutive_pref, preferences,
                   assignments, shifts_per_day, shift_overrides, holidays>>
    /\ Served(Reply("rebalance", t, NoMonth, <<>>, monthlyPriorities[t] # EmptyDict, 200))

\* ----------------------------------------------------------- specification
NoReply == Reply("init", NoTeam, NoMonth, <<>>, FALSE, 0)

\* The empty database, before any request
Init ==
    /\ teams = {}
    /\ team_id = [n \in Names |-> NoTeam]
    /\ maxShifts = [n \in Names |-> DefaultMaxShifts]
    /\ consecutive_pref = [n \in Names |-> "neutral"]
    /\ preferences = [n \in Names |-> EmptyDict]
    /\ baseGroups = [t \in Teams |-> << <<>> >>]
    /\ monthlyPriorities = [t \in Teams |-> EmptyDict]
    /\ assignments = [t \in Teams |-> EmptyDict]
    /\ shifts_per_day = [t \in Teams |-> DefaultShiftsPerDay]
    /\ shift_overrides = [t \in Teams |-> EmptyDict]
    /\ holidays = {}
    /\ live_preferences = preferences
    /\ last = NoReply
    /\ sim = SimIdle
    /\ cal = CalIdle
    /\ reqs = NoRequests

\* Requests of the roster and rotation-store model: engineers A, B, C join
\* T1; C may join T2 instead; "a" asks to join T1 as well.
AddInputs == {<<"A", "T1">>, <<"B", "T1">>, <<"C", "T1">>, <<"C", "T2">>, <<"a", "T1">>}

\* Months are resolved for T1 in any order, and for T2 (at most engineer C) the
\* first month only.
ResolveInputs == {<<"T1", m>> : m \in Months} \cup {<<"T2", MonthAt(0)>>}

Next ==
    \/ \E t \in Teams : CreateTeam(t)
    \/ \E p \in AddInputs : AddEngineer(p[1], p[2])
    \/ \E n \in Names : DeleteEngineer(n)
    \/ \E t \in Teams, gs \in 1..MaxGroupSize :
          \E sh \in Perms(TeamEngineers(t)) : RebalanceTeams(t, gs, sh)
    \/ \E p \in ResolveInputs : ResolvePriority(p[1], p[2])

Spec == Init /\ [][Next]_vars

\* ------------------------------------- the simulator, pass by pass (SimSpec)
Sat4 == DateStr(2025, 10, 4)
Sun5 == DateStr(2025, 10, 5)
Mon6 == DateStr(2025, 10, 6)
Sat11 == DateStr(2025, 10, 11)
SimMonth == MonthAt(0)
Weekend == {Sat4, Sun5, Sat11}
SeqsUpTo(S, n) == UNION {[1..k -> S] : k \in 0..n}
Dict1(k, v) == Put(EmptyDict, k, v)
Holiday(d) == [date |-> d, note |-> ""]

\* Preference lists: A up to MaxPrefs weekend days (repeats included) or a list
\* with the weekday Mon6; B at most one date.
PrefListsA == SeqsUpTo(Weekend, MaxPrefs) \cup {<<Mon6>>, <<Mon6, Sat4>>, <<Sat4, Mon6>>}
PrefListsB == SeqsUpTo(Weekend, 1) \cup {<<Mon6>>}
\* Team T1's grouping and cache: B ranked first by rotation, A ranked first by a
\* stored snapshot, and the grouping that add-after-delete leaves without B.
SimRosters ==
    {[base |-> << <<"A", "B">> >>, mp |-> EmptyDict],
     [base |-> << <<"B", "A">> >>, mp |-> Dict1(SimMonth, << <<"A", "B">> >>)],
     [base |-> << <<"A">> >>, mp |-> EmptyDict]}
\* Capacities, holidays and team T2's engineer C
SimConfigs ==
    {[spd |-> 1, ov |-> EmptyDict, hol |-> {}, prefC |-> <<>>],
     [spd |-> 2, ov |-> Put(Dict1(Sat4, 1), Sat11, 0), hol |-> {}, prefC |-> <<Sat4>>],
     [spd |-> 1, ov |-> Dict1(Sun5, 2), hol |-> {Holiday(Mon6)}, prefC |-> <<Sat4>>]}
\* What-if payloads
SimTemps ==
    {[engineer |-> e, preferences |-> p, maxShifts |-> k] :
        e \in {"A", "B"}, p \in SeqsUpTo({Sat4, Sun5}, MaxPrefs), k \in 0..MaxShiftsBound}

PrefDict(p) == IF p = <<>> THEN EmptyDict ELSE Dict1(SimMonth, p)

\* The roster of the simulator and handler models: A and B in T1, C in T2
Roster ==
    [n \in Names |-> IF n \in {"A", "B"} THEN "T1" ELSE IF n = "C" THEN "T2" ELSE NoTeam]

SimDatabase(pa, pb, ma, mb, ca, r, c) ==
    /\ teams = Teams
    /\ team_id = Roster
    /\ maxShifts = [n \in Names |-> IF n = "A" THEN ma ELSE IF n = "B" THEN mb
                                     ELSE IF n = "C" THEN 1 ELSE DefaultMaxShifts]
    /\ consecutive_pref = [n \in Names |-> IF n = "A" THEN ca ELSE "neutral"]
    /\ preferences = [n \in Names |-> PrefDict(IF n = "A" THEN pa
                                               ELSE IF n = "B" THEN pb
                                               ELSE IF n = "C" THEN c.prefC ELSE <<>>)]
    /\ baseGroups = [t \in Teams |-> IF t = "T1" THEN r.base ELSE << <<"C">> >>]
    /\ monthlyPriorities = [t \in Teams |-> IF t = "T1" THEN r.mp ELSE EmptyDict]
    /\ assignments = [t \in Teams |-> EmptyDict]
    /\ shifts_per_day = [t \in Teams |-> IF t = "T1" THEN c.spd ELSE DefaultShiftsPerDay]
    /\ shift_overrides = [t \in Teams |-> IF t = "T1" THEN c.ov ELSE EmptyDict]
    /\ holidays = c.hol
    /\ live_preferences = preferences
    /\ last = NoReply
    /\ cal = CalIdle
    /\ reqs = NoRequests

\* The locals once the temp_engineer_prefs block has run
SimStart(month_str, temp) ==
    [pc |-> "next_team", month |-> month_str, temp |-> temp,
     on_call_days |-> OnCallDays(month_str, holidays),
     engs |-> WorkingEngineers(EngineersData, month_str, temp),
     ti |-> 1, pass |-> 0, st |-> [ta |-> <<>>, cnt |-> <<>>, err |-> FALSE],
     final |-> [d \in Range(OnCallDays(month_str, holidays)) |-> <<>>]]

SimInit ==
    \/ \E pa \in PrefListsA, pb \in PrefListsB, ma \in 0..MaxShiftsBound, mb \in 1..2,
          ca \in {"neutral", "avoid"}, r \in SimRosters, c \in SimConfigs :
          /\ SimDatabase(pa, pb, ma, mb, ca, r, c)
          /\ sim = SimStart(SimMonth, NoTemp)
    \/ \E temp \in SimTemps, ca \in {"neutral", "avoid"}, r \in SimRosters, c \in SimConfigs :
          /\ SimDatabase(<<Sat4>>, <<Sat4>>, 1, 1, ca, r, c)
          /\ sim = SimStart(SimMonth, temp)

SimTeam == TeamRows[sim.ti]

\* for team_dict in teams_data: up to the first pass
SimEnterTeam ==
    /\ sim.pc = "next_team"
    /\ sim.ti <= Len(TeamRows)
    /\ sim' = IF {x \in DOMAIN sim.engs : sim.engs[x].team = SimTeam} = {}
              THEN [sim EXCEPT !.ti = @ + 1]
              ELSE [sim EXCEPT !.pc = "passes", !.pass = 0,
                               !.st = TeamStart(SimTeam, sim.engs, sim.on_call_days)]
    /\ UNCHANGED <<dbvars, live_preferences, last, cal, reqs>>

\* one iteration of for _ in range(max_shifts_requested)
SimPass ==
    /\ sim.pc = "passes"
    /\ sim.pass < MaxShiftsRequested(SimTeam, sim.engs)
    /\ LET st == RunPass(sim.st,
                         MonthlyPriorityList(SimTeam, TeamsData[SimTeam], sim.engs, sim.month),
                         sim.engs, TeamsData[SimTeam], sim.month, sim.on_call_days)
       IN sim' = [sim EXCEPT !.st = st, !.pass = @ + 1,
                             !.pc = IF st.err THEN "raised" ELSE "passes"]
    /\ UNCHANGED <<dbvars, live_preferences, last, cal, reqs>>

\* the team's lists are appended to final_assignments
SimLeaveTeam ==
    /\ sim.pc = "passes"
    /\ sim.pass = MaxShiftsRequested(SimTeam, sim.engs)
    /\ sim' = [sim EXCEPT !.pc = "next_team", !.ti = @ + 1,
                          !.final = Extend(sim.final, sim.st.ta)]
    /\ UNCHANGED <<dbvars, live_preferences, last, cal, reqs>>

\* return final_assignments
SimReturn ==
    /\ sim.pc = "next_team"
    /\ sim.ti > Len(TeamRows)
    /\ sim' = [sim EXCEPT !.pc = "returned"]
    /\ UNCHANGED <<dbvars, live_preferences, last, cal, reqs>>

SimNext == SimEnterTeam \/ SimPass \/ SimLeaveTeam \/ SimReturn

SimSpec == SimInit /\ [][SimNext]_vars

\* The run in steps returns what the function returns.
SimStepsAgree ==
    /\ sim.pc = "returned" =>
          RunScheduleSimulation(sim.month, TeamRows, TeamsData, EngineersData, holidays,
                                sim.temp) = [raised |-> FALSE, final |-> sim.final]
    /\ sim.pc = "raised" =>
          RunScheduleSimulation(sim.month, TeamRows, TeamsData, EngineersData, holidays,
                                sim.temp) = NoResult

\* ------------------------------------------- the API handlers (AppSpec)
\* (mutant) the month's old entries are kept and only the other days are filled
GeneratedAssignmentsFillGaps(old, final, month_str, team_engineers) ==
    LET Mine(d) == SelectSeq(final[d], LAMBDA n : n \in team_engineers)
        new == {d \in DOMAIN final : StartsWith(d, month_str) /\ Mine(d) # <<>>}
    IN [d \in (DOMAIN old) \cup new |-> IF d \in DOMAIN old THEN old[d] ELSE Mine(d)]

\* One team's assignments after generate_schedule stored the result final
GeneratedAssignments(old, final, month_str, team_engineers) ==
    LET kept == Drop(old, {d \in DOMAIN old : StartsWith(d, month_str)})
        Mine(d) == SelectSeq(final[d], LAMBDA n : n \in team_engineers)
        new == {d \in DOMAIN final : StartsWith(d, month_str) /\ Mine(d) # <<>>}
    IN [d \in (DOMAIN kept) \cup new |-> IF d \in new THEN Mine(d) ELSE kept[d]]

\* GET /api/data?month=m&team=t: the rotation is resolved for the selected team and
\* then, in _get_day_preferences, for every team; the reply carries the selected
\* team's groups
HandleData(t, m) ==
    /\ t \in teams
    /\ monthlyPriorities' =
          [u \in Teams |->
              IF u \in teams
              THEN SavedPriorities(monthlyPriorities[u], baseGroups[u], u, team_id, m)
              ELSE monthlyPriorities[u]]
    /\ UNCHANGED <<teams, team_id, maxShifts, consecutive_pref, preferences, baseGroups,
                   assignments, shifts_per_day, shift_overrides, holidays>>
    /\ Served(Reply("data", t, m, ReturnedGroups(monthlyPriorities'[t], team_id, m),
                    CacheMiss(monthlyPriorities[t], m), 200))

\* POST /api/generate-schedule, but for the variables that are no part of the
\* request; the observation keeps, as ret, the assignments the request found
GenerateScheduleRun(month_str) ==
    /\ LET r == RunScheduleSimulation(month_str, TeamRows, TeamsData, EngineersData,
                                      holidays, NoTemp)
       IN IF r.raised
          THEN /\ UNCHANGED assignments
               /\ last' = Reply("generate", NoTeam, month_str, <<>>, FALSE, 500)
          ELSE /\ assignments' =
                     [t \in Teams |->
                         IF t \in teams
                         THEN GeneratedAssignments(assignments[t], r.final, month_str,
                                                   TeamEngineers(t))
                         ELSE assignments[t]]
               /\ last' = Reply("generate", NoTeam, month_str, assignments, TRUE, 200)
    /\ UNCHANGED <<teams, team_id, maxShifts, consecutive_pref, preferences, baseGroups,
                   monthlyPriorities, shifts_per_day, shift_overrides, holidays>>
    /\ live_preferences' = preferences'

GenerateSchedule(month_str) ==
    /\ GenerateScheduleRun(month_str)
    /\ UNCHANGED <<sim, cal, reqs>>

\* Engineer.to_dict returns self.preferences itself unless it is empty
\* ("self.preferences or {}"), so the simulator's write of the hypothetical list
\* lands in the session's Engineer object.
SessionPreferences(prefs, known, eng_name, month_str, hypothetical) ==
    IF eng_name \in known /\ prefs[eng_name] # EmptyDict
    THEN [prefs EXCEPT ![eng_name] = Put(@, month_str, hypothetical)]
    ELSE prefs

\* sorted([day for day, names in simulated_assignments.items() if eng_name in names])
AssignedShifts(final, eng_name) ==
    SortedSeq({d \in DOMAIN final : Contains(final[d], eng_name)})

\* (mutant) the request commits the session with the written list flagged modified
AnalyzeChancesCommitted(month_str, eng_name, hypothetical, max_shifts) ==
    /\ LET temp == [engineer |-> eng_name, preferences |-> hypothetical,
                    maxShifts |-> max_shifts]
           r == RunScheduleSimulation(month_str, TeamRows, TeamsData, EngineersData,
                                      holidays, temp)
       IN last' = IF r.raised
                  THEN Reply("analyze", NoTeam, month_str, <<>>, FALSE, 500)
                  ELSE Reply("analyze", NoTeam, month_str,
                             AssignedShifts(r.final, eng_name), FALSE, 200)
    /\ preferences' =
          SessionPreferences(preferences, Engineers, eng_name, month_str, hypothetical)
    /\ live_preferences' = preferences'
    /\ UNCHANGED <<teams, team_id, maxShifts, consecutive_pref, baseGroups,
                   monthlyPriorities, assignments, shifts_per_day, shift_overrides, holidays>>
    /\ UNCHANGED <<sim, cal, reqs>>

\* POST /api/analyze-chances; nothing is committed and the session is discarded
AnalyzeChances(month_str, eng_name, hypothetical, max_shifts) ==
    /\ LET temp == [engineer |-> eng_name, preferences |-> hypothetical,
                    maxShifts |-> max_shifts]
           r == RunScheduleSimulation(month_str, TeamRows, TeamsData, EngineersData,
                                      holidays, temp)
       IN last' = IF r.raised
                  THEN Reply("analyze", NoTeam, month_str, <<>>, FALSE, 500)
                  ELSE Reply("analyze", NoTeam, month_str,
                             AssignedShifts(r.final, eng_name), FALSE, 200)
    /\ live_preferences' =
          SessionPreferences(preferences, Engineers, eng_name, month_str, hypothetical)
    /\ UNCHANGED dbvars
    /\ UNCHANGED <<sim, cal, reqs>>

\* POST /api/preferences
HandlePreferences(p) ==
    /\ IF team_id[p.engineer] # NoTeam
       THEN /\ preferences' = [preferences EXCEPT ![p.engineer] =
                                  Put(@, p.month, p.preferences)]
            /\ maxShifts' = [maxShifts EXCEPT ![p.engineer] = p.maxShifts]
            /\ consecutive_pref' = [consecutive_pref EXCEPT ![p.engineer] = p.consecutivePref]
            /\ last' = Reply("preferences", NoTeam, p.month, <<>>, FALSE, 200)
       ELSE /\ UNCHANGED <<preferences, maxShifts, consecutive_pref>>
            /\ last' = Reply("preferences", NoTeam, p.month, <<>>, FALSE, 404)
    /\ UNCHANGED <<teams, team_id, baseGroups, monthlyPriorities, assignments,
                   shifts_per_day, shift_overrides, holidays>>
    /\ live_preferences' = preferences'
    /\ UNCHANGED <<sim, cal, reqs>>

\* POST /api/shift-overrides?team=t with the body {day: count}; blank stands for a
\* count of None or ''
HandleShiftOverrides(p) ==
    /\ p.team \in teams
    /\ shift_overrides' = [shift_overrides EXCEPT ![p.team] =
           IF ~p.blank THEN Put(@, p.day, p.count) ELSE Drop(@, {p.day})]
    /\ UNCHANGED <<teams, team_id, maxShifts, consecutive_pref, preferences, baseGroups,
                   monthlyPriorities, assignments, shifts_per_day, holidays>>
    /\ Served(Reply("shift_overrides", p.team, NoMonth, <<>>, FALSE, 200))

\* POST /api/reset-schedule
ResetSchedule(month_str) ==
    /\ assignments' = [t \in Teams |->
           IF t \in teams
           THEN Drop(assignments[t], {d \in DOMAIN assignments[t] : StartsWith(d, month_str)})
           ELSE assignments[t]]
    /\ UNCHANGED <<teams, team_id, maxShifts, consecutive_pref, preferences, baseGroups,
                   monthlyPriorities, shifts_per_day, shift_overrides, holidays>>
    /\ Served(Reply("reset", NoTeam, month_str, <<>>, FALSE, 200))

\* team_assignments[shift_date][index] = target_engineer_name
SwappedShift(names, original, target) ==
    [i \in 1..Len(names) |-> IF i = IndexOf(names, original) THEN target ELSE names[i]]

\* POST /api/manage-shift: a manual swap, written with flag_modified
ManageShift(p) ==
    /\ IF /\ p.team \in teams
          /\ p.date \in DOMAIN assignments[p.team]
          /\ Contains(assignments[p.team][p.date], p.originalEngineer)
       THEN /\ assignments' = [assignments EXCEPT ![p.team][p.date] =
                                  SwappedShift(@, p.originalEngineer, p.targetEngineer)]
            /\ last' = Reply("manage_shift", p.team, NoMonth, <<>>, TRUE, 200)
       ELSE /\ UNCHANGED assignments
            /\ last' = Reply("manage_shift", p.team, NoMonth, <<>>, FALSE, 404)
    /\ UNCHANGED <<teams, team_id, maxShifts, consecutive_pref, preferences, baseGroups,
                   monthlyPriorities, shifts_per_day, shift_overrides, holidays>>
    /\ live_preferences' = preferences'
    /\ UNCHANGED <<sim, cal, reqs>>

\* Requests of the handler model
PrefPayloads ==
    {[engineer |-> "A", month |-> SimMonth, preferences |-> <<Sat4>>, maxShifts |-> 1,
      consecutivePref |-> "neutral"],
     [engineer |-> "B", month |-> SimMonth, preferences |-> <<Sat4, Sun5>>, maxShifts |-> 2,
      consecutivePref |-> "avoid"]}
WhatIfPayloads ==
    {[month |-> SimMonth, engineer |-> "A", preferences |-> <<Sun5>>,
      maxShifts |-> WhatIfDefaultMaxShifts],
     [month |-> SimMonth, engineer |-> "B", preferences |-> <<Sat4>>, maxShifts |-> 1]}
OverridePayloads ==
    {[team |-> "T1", day |-> Sat4, count |-> 2, blank |-> FALSE],
     [team |-> "T1", day |-> Sat4, count |-> 0, blank |-> TRUE]}

SwapPayloads ==
    {[date |-> Sat4, team |-> "T1", originalEngineer |-> "A", targetEngineer |-> "B"],
     [date |-> Sat4, team |-> "T1", originalEngineer |-> "B", targetEngineer |-> "A"]}

\* T1 as the adds leave it, and as a rebalance into groups of one leaves it
AppGroupings == {<< <<"A", "B">> >>, << <<"A">>, <<"B">> >>}

\* A database the roster requests lead to: A and B added to T1, C to T2, and C's
\* preference for 2025-10-04 submitted.
AppInit ==
    /\ teams = Teams
    /\ team_id = Roster
    /\ maxShifts = [n \in Names |-> DefaultMaxShifts]
    /\ consecutive_pref = [n \in Names |-> "neutral"]
    /\ preferences = [n \in Names |-> IF n = "C" THEN Dict1(SimMonth, <<Sat4>>) ELSE EmptyDict]
    /\ \E g \in AppGroupings :
          baseGroups = [t \in Teams |-> IF t = "T1" THEN g ELSE << <<"C">> >>]
    /\ monthlyPriorities = [t \in Teams |-> EmptyDict]
    /\ assignments = [t \in Teams |-> EmptyDict]
    /\ shifts_per_day = [t \in Teams |-> DefaultShiftsPerDay]
    /\ shift_overrides = [t \in Teams |-> EmptyDict]
    /\ holidays = {}
    /\ live_preferences = preferences
    /\ last = NoReply
    /\ sim = SimIdle
    /\ cal = CalIdle
    /\ reqs = NoRequests

AppNext ==
    \/ \E t \in Teams, m \in Months : HandleData(t, m)
    \/ \E m \in Months : GenerateSchedule(m)
    \/ \E w \in WhatIfPayloads : AnalyzeChances(w.month, w.engineer, w.preferences, w.maxShifts)
    \/ \E p \in PrefPayloads : HandlePreferences(p)
    \/ \E p \in OverridePayloads : HandleShiftOverrides(p)
    \/ \E m \in Months : ResetSchedule(m)
    \/ \E p \in SwapPayloads : ManageShift(p)

AppSpec == AppInit /\ [][AppNext]_vars

\* ------------------------ requests with invalid input (InputSpec)
\* A what-if payload naming an engineer who does not exist
UnknownEngineerPayloads ==
    {[month |-> SimMonth, engineer |-> "a", preferences |-> <<Sat4>>, maxShifts |-> 1]}
\* A shift-override body with a negative count
NegativeOverridePayloads ==
    {[team |-> "T1", day |-> Sun5, count |-> -1, blank |-> FALSE]}

\* The handlers of AppSpec, called with the invalid payloads as well
InputNext ==
    \/ \E m \in Months : GenerateSchedule(m)
    \/ \E w \in WhatIfPayloads \cup UnknownEngineerPayloads :
          AnalyzeChances(w.month, w.engineer, w.preferences, w.maxShifts)
    \/ \E p \in PrefPayloads : HandlePreferences(p)
    \/ \E p \in OverridePayloads \cup NegativeOverridePayloads : HandleShiftOverrides(p)

InputSpec == AppInit /\ [][InputNext]_vars

\* ------------------------ the ranking a generation uses (RankSpec)
\* monthly_priority_list of every team in a run for month_str on the database
RankingUsed(month_str) ==
    [t \in teams |-> MonthlyPriorityList(t, TeamsData[t], EngineersData, month_str)]

\* generate_schedule, with the rankings of its run left in sim to be looked at
GenerateScheduleObserved(month_str) ==
    /\ GenerateScheduleRun(month_str)
    /\ sim' = [pc |-> "generated", month |-> month_str, ranking |-> RankingUsed(month_str)]
    /\ UNCHANGED <<cal, reqs>>

\* Months are resolved and schedules generated in any order; the roster stays.
RankNext ==
    \/ \E t \in Teams, m \in Months : HandleData(t, m)
    \/ \E m \in Months : GenerateScheduleObserved(m)

RankSpec == AppInit /\ [][RankNext]_vars

\* ------------------------------------ the calendar function alone (CalSpec)
\* Arguments of the call: three months (a 31-day month, December, a leap February)
\* and up to MaxHolidays holiday dates, in either form.
CalMonths == {<<2025, 10>>, <<2025, 12>>, <<2024, 2>>}
CalDates == {Sat4, Mon6, DateStr(2025, 11, 3), DateStr(2025, 12, 25), DateStr(2024, 2, 29)}
CalForms == {"records", "strings"}
InForm(dates, form) ==
    [i \in DOMAIN dates |-> IF form = "records" THEN Holiday(dates[i])
                             ELSE PlainString(dates[i])]

CalInit ==
    /\ teams = {}
    /\ team_id = [n \in Names |-> NoTeam]
    /\ maxShifts = [n \in Names |-> DefaultMaxShifts]
    /\ consecutive_pref = [n \in Names |-> "neutral"]
    /\ preferences = [n \in Names |-> EmptyDict]
    /\ baseGroups = [t \in Teams |-> << <<>> >>]
    /\ monthlyPriorities = [t \in Teams |-> EmptyDict]
    /\ assignments = [t \in Teams |-> EmptyDict]
    /\ shifts_per_day = [t \in Teams |-> DefaultShiftsPerDay]
    /\ shift_overrides = [t \in Teams |-> EmptyDict]
    /\ holidays = {}
    /\ live_preferences = preferences
    /\ last = NoReply
    /\ sim = SimIdle
    /\ reqs = NoRequests
    /\ \E ym \in CalMonths, dates \in SeqsUpTo(CalDates, MaxHolidays), form \in CalForms :
          cal = [pc |-> "called", year |-> ym[1], month |-> ym[2], dates |-> dates,
                 form |-> form, raised |-> FALSE, days |-> <<>>]

\* the call runs to its return or to its exception
CalReturn ==
    /\ cal.pc = "called"
    /\ LET r == GetOnCallDaysPure(cal.year, cal.month, InForm(cal.dates, cal.form))
       IN cal' = [cal EXCEPT !.pc = "done", !.raised = r.raised, !.days = r.days]
    /\ UNCHANGED <<dbvars, live_preferences, last, sim, reqs>>

CalNext == CalReturn

CalSpec == CalInit /\ [][CalNext]_vars

\* ---- requests served concurrently (ResolveConcSpec, GenerateConcSpec)
\* Each request works in a session of its own: its queries load the rows as they
\* are committed at that moment, it computes on what it loaded, and its commit
\* writes the whole JSON column it assigned.  Nothing in the handlers locks a row or
\* checks a version.
Nov1 == DateStr(2025, 11, 1)

\* handle_data up to the call of _calculate_monthly_priorities_and_save: the team
\* and the engineers are loaded
ResolveLoad(r, t, m) ==
    /\ reqs[r].pc = "idle"
    /\ t \in teams
    /\ reqs' = [reqs EXCEPT ![r] =
                  [pc |-> "resolve", team |-> t, month |-> m,
                   monthly_priorities |-> monthlyPriorities[t],
                   base |-> baseGroups[t], tid |-> team_id]]
    /\ UNCHANGED <<dbvars, live_preferences, last, sim, cal>>

\* _calculate_monthly_priorities_and_save on the loaded team: on a miss the column
\* is assigned {**monthly_priorities, month_str: rotated} and committed
ResolveCommit(r) ==
    /\ reqs[r].pc = "resolve"
    /\ \E q \in {reqs[r]} :
       \E saved \in {SavedPriorities(q.monthly_priorities, q.base, q.team, q.tid, q.month)} :
          /\ monthlyPriorities' =
                IF CacheMiss(q.monthly_priorities, q.month)
                THEN [monthlyPriorities EXCEPT ![q.team] = saved]
                ELSE monthlyPriorities
          /\ last' = Reply("resolve", q.team, q.month,
                           ReturnedGroups(saved, q.tid, q.month),
                           CacheMiss(q.monthly_priorities, q.month), 200)
    /\ reqs' = [reqs EXCEPT ![r] = [pc |-> "idle"]]
    /\ live_preferences' = preferences
    /\ UNCHANGED <<teams, team_id, maxShifts, consecutive_pref, preferences, baseGroups,
                   assignments, shifts_per_day, shift_overrides, holidays, sim, cal>>

\* generate_schedule up to the simulation: teams, engineers and holidays are loaded
GenerateLoad(r, m) ==
    /\ reqs[r].pc = "idle"
    /\ reqs' = [reqs EXCEPT ![r] =
                  [pc |-> "generate", month |-> m, teams_data |-> TeamsData,
                   engineers_data |-> EngineersData, holidays_data |-> holidays,
                   assignments |-> assignments, tid |-> team_id]]
    /\ UNCHANGED <<dbvars, live_preferences, last, sim, cal>>

\* generate_schedule from the simulation to the commit: every team's assignments
\* column is rebuilt from the loaded value and written
GenerateCommit(r) ==
    /\ reqs[r].pc = "generate"
    /\ \E q \in {reqs[r]} :
       \E res \in {RunScheduleSimulation(q.month, TeamRows, q.teams_data, q.engineers_data,
                                         q.holidays_data, NoTemp)} :
          IF res.raised
          THEN /\ UNCHANGED assignments
               /\ last' = Reply("generate", NoTeam, q.month, <<>>, FALSE, 500)
          ELSE /\ assignments' =
                     [t \in Teams |->
                         IF t \in teams
                         THEN GeneratedAssignments(q.assignments[t], res.final, q.month,
                                                   {n \in Names : q.tid[n] = t})
                         ELSE assignments[t]]
               /\ last' = Reply("generate", NoTeam, q.month, res.final, TRUE, 200)
    /\ reqs' = [reqs EXCEPT ![r] = [pc |-> "idle"]]
    /\ live_preferences' = preferences
    /\ UNCHANGED <<teams, team_id, maxShifts, consecutive_pref, preferences, baseGroups,
                   monthlyPriorities, shifts_per_day, shift_overrides, holidays, sim, cal>>

\* Two teams with their engineers; A wants the first Saturday of two months.
ConcInit ==
    /\ teams = Teams
    /\ team_id = Roster
    /\ maxShifts = [n \in Names |-> DefaultMaxShifts]
    /\ consecutive_pref = [n \in Names |-> "neutral"]
    /\ preferences = [n \in Names |->
                         IF n = "A" THEN Put(Dict1(SimMonth, <<Sat4>>), MonthAt(1), <<Nov1>>)
                         ELSE IF n = "C" THEN Dict1(SimMonth, <<Sat4>>) ELSE EmptyDict]
    /\ baseGroups = [t \in Teams |-> IF t = "T1" THEN << <<"A", "B">> >> ELSE << <<"C">> >>]
    /\ monthlyPriorities = [t \in Teams |-> EmptyDict]
    /\ assignments = [t \in Teams |-> EmptyDict]
    /\ shifts_per_day = [t \in Teams |-> DefaultShiftsPerDay]
    /\ shift_overrides = [t \in Teams |-> EmptyDict]
    /\ holidays = {}
    /\ live_preferences = preferences
    /\ last = NoReply
    /\ sim = SimIdle
    /\ cal = CalIdle
    /\ reqs = NoRequests

\* Concurrent requests for rotations
ResolveConcNext ==
    \/ \E r \in Reqs : \E p \in ResolveInputs : ResolveLoad(r, p[1], p[2])
    \/ \E r \in Reqs : ResolveCommit(r)

ResolveConcSpec == ConcInit /\ [][ResolveConcNext]_vars

\* Concurrent schedule generations
GenerateConcNext ==
    \/ \E r \in Reqs : \E m \in Months : GenerateLoad(r, m)
    \/ \E r \in Reqs : GenerateCommit(r)

GenerateConcSpec == ConcInit /\ [][GenerateConcNext]_vars

\* --------------------------------------------------- claims: the simulator
\* The cap and the preference list the run uses for n: the what-if payload's for the
\* engineer it names, the row's otherwise.
Cap(n) ==
    IF sim.temp # NoTemp /\ sim.temp.engineer = n THEN sim.temp.maxShifts ELSE maxShifts[n]
PrefsOf(n) ==
    IF sim.temp # NoTemp /\ sim.temp.engineer = n THEN sim.temp.preferences
    ELSE IF sim.month \in DOMAIN preferences[n] THEN preferences[n][sim.month] ELSE <<>>
DaysListing(lists, n) == {d \in DOMAIN lists : \E i \in DOMAIN lists[d] : lists[d][i] = n}
TeamCount(list, t) == Cardinality({i \in DOMAIN list : team_id[list[i]] = t})
EffectiveCapacity(t, d) ==
    IF d \in DOMAIN shift_overrides[t] THEN shift_overrides[t][d] ELSE shifts_per_day[t]
IsOnCallDay(d) ==
    /\ d \div 100 = sim.month
    /\ (d % 100) \in 1..DaysInMonth(sim.month \div 100, sim.month % 100)
    /\ \/ Weekday(d \div 10000, (d \div 100) % 100, d % 100) >= 5
       \/ \E h \in holidays : h.date = d
Rank(t, n) ==
    IndexOf(MonthlyPriorityList(t, TeamsData[t], sim.engs, sim.month), n)
Ranked(t, n) ==
    Contains(MonthlyPriorityList(t, TeamsData[t], sim.engs, sim.month), n)
SimResultReady == sim.pc \in {"next_team", "returned"}

\* C5: after every pass and in the result, no engineer is listed on more days than
\* the engineer's maxShifts (the what-if cap for the engineer a what-if names).
C5_CapNeverExceeded ==
    /\ sim.pc = "passes" =>
          \A n \in TeamEngineers(SimTeam) :
              Cardinality(DaysListing(sim.st.ta, n)) <= Cap(n)
    /\ SimResultReady =>
          \A n \in Engineers : Cardinality(DaysListing(sim.final, n)) <= Cap(n)

\* A what-if run returned with its engineer on as many days as the hypothetical
\* cap, which is above the engineer's stored maxShifts.
C5_Witness ==
    /\ sim.pc = "returned" /\ sim.temp # NoTemp
    /\ sim.temp.maxShifts > maxShifts[sim.temp.engineer]
    /\ Cardinality(DaysListing(sim.final, sim.temp.engineer)) = sim.temp.maxShifts

\* C6: for every team and on-call day, the team's engineers assigned to the day are
\* never more than the day's override if the team has one, else its shifts_per_day.
C6_CapacityNeverExceeded ==
    /\ sim.pc = "passes" =>
          \A d \in DOMAIN sim.st.ta : Len(sim.st.ta[d]) <= EffectiveCapacity(SimTeam, d)
    /\ SimResultReady =>
          \A t \in teams : \A d \in DOMAIN sim.final :
              TeamCount(sim.final[d], t) <= EffectiveCapacity(t, d)

\* A day whose override is below the team default is full at the override, and an
\* engineer of the team who listed it is not on it.
C6_Witness ==
    /\ sim.pc = "returned"
    /\ \E d \in DOMAIN shift_overrides["T1"] :
          /\ 0 < shift_overrides["T1"][d] /\ shift_overrides["T1"][d] < shifts_per_day["T1"]
          /\ TeamCount(sim.final[d], "T1") = shift_overrides["T1"][d]
          /\ \E n \in TeamEngineers("T1") :
                Contains(PrefsOf(n), d) /\ ~Contains(sim.final[d], n)

\* C7: no engineer appears twice in one day's list, after any pass and in the result.
NoRepeat(list) == \A i, j \in DOMAIN list : list[i] = list[j] => i = j
C7_NoEngineerTwiceInADay ==
    /\ sim.pc = "passes" => \A d \in DOMAIN sim.st.ta : NoRepeat(sim.st.ta[d])
    /\ SimResultReady => \A d \in DOMAIN sim.final : NoRepeat(sim.final[d])

\* An engineer with cap 2 listed the same day twice, is on it once, and the day
\* still has room for the team; another team's engineer shares a day's list.
C7_Witness ==
    /\ sim.pc = "returned"
    /\ \E n \in TeamEngineers("T1"), d \in DOMAIN sim.final :
          /\ PrefsOf(n) = <<d, d>> /\ Cap(n) = 2
          /\ Contains(sim.final[d], n)
          /\ TeamCount(sim.final[d], "T1") < EffectiveCapacity("T1", d)
    /\ \E d \in DOMAIN sim.final : Contains(sim.final[d], "C") /\ Len(sim.final[d]) >= 2

\* C8: two ranked engineers of one team whose only preference is the same on-call
\* day, of capacity 1, both with cap 1: the day goes to the one ranked first and the
\* other is on no day of the result.
Contend(t, a, b, d) ==
    /\ a # b /\ team_id[a] = t /\ team_id[b] = t
    /\ PrefsOf(a) = <<d>> /\ PrefsOf(b) = <<d>>
    /\ IsOnCallDay(d) /\ EffectiveCapacity(t, d) = 1
    /\ Cap(a) = 1 /\ Cap(b) = 1
    /\ Ranked(t, a) /\ Ranked(t, b) /\ Rank(t, a) < Rank(t, b)
C8_HigherPriorityWins ==
    sim.pc = "returned" =>
        \A t \in teams, a \in Names, b \in Names, d \in DOMAIN sim.final :
            Contend(t, a, b, d) =>
                /\ Contains(sim.final[d], a)
                /\ DaysListing(sim.final, b) = {}

\* B, ranked first by the rotation of [[A, B]], took the day A also wanted.
C8_Witness ==
    /\ sim.pc = "returned"
    /\ \E d \in DOMAIN sim.final :
          /\ Contend("T1", "B", "A", d)
          /\ Contains(sim.final[d], "B") /\ DaysListing(sim.final, "A") = {}

\* C9: the result's keys are the on-call days of the month; an engineer is only on
\* on-call dates of the engineer's own preference list, so a day nobody listed is
\* empty; A preferring only 2025-10-04 and B only 2025-10-11 (caps 1, capacity 1,
\* nobody else with preferences) gives exactly those two assignments.
TestScenario ==
    /\ PrefsOf("A") = <<Sat4>> /\ PrefsOf("B") = <<Sat11>> /\ PrefsOf("C") = <<>>
    /\ Cap("A") = 1 /\ Cap("B") = 1
    /\ EffectiveCapacity("T1", Sat4) = 1 /\ EffectiveCapacity("T1", Sat11) = 1
    /\ Ranked("T1", "A") /\ Ranked("T1", "B")
C9_OnlyOwnPreferences ==
    sim.pc = "returned" =>
        /\ DOMAIN sim.final = {d \in DateStr(sim.month \div 100, sim.month % 100, 1)
                                     ..DateStr(sim.month \div 100, sim.month % 100, 31) :
                                  IsOnCallDay(d)}
        /\ \A d \in DOMAIN sim.final : \A i \in DOMAIN sim.final[d] :
              IsOnCallDay(d) /\ Contains(PrefsOf(sim.final[d][i]), d)
        /\ \A d \in DOMAIN sim.final :
              (\A n \in Engineers : ~Contains(PrefsOf(n), d)) => sim.final[d] = <<>>
        /\ TestScenario =>
              sim.final = [d \in DOMAIN sim.final |->
                              IF d = Sat4 THEN <<"A">>
                              ELSE IF d = Sat11 THEN <<"B">> ELSE <<>>]

\* The scenario of test_03 has run: A is on 2025-10-04, B on 2025-10-11 and
\* 2025-10-05 is a key with an empty list.
C9_Witness ==
    /\ sim.pc = "returned" /\ TestScenario
    /\ sim.final[Sat4] = <<"A">> /\ sim.final[Sat11] = <<"B">> /\ sim.final[Sun5] = <<>>
    /\ Cardinality(DOMAIN sim.final) = 8

\* ------------------------------------------------- claims: the API handlers
\* C2: a stored snapshot is fixed.  No step of the handler model (resolves of any
\* month in any order, schedule generation, what-if analysis, reset, preference
\* submission, capacity override) removes or alters a stored team-month, and a
\* resolve of a stored team-month returns the stored groups without writing.
C2_SnapshotFixed ==
    [][\A t \in Teams : \A m \in DOMAIN monthlyPriorities[t] :
          /\ m \in DOMAIN monthlyPriorities'[t]
          /\ monthlyPriorities'[t][m] = monthlyPriorities[t][m]
          /\ (last'.op = "data" /\ last'.team = t /\ last'.month = m)
                => (last'.ret = monthlyPriorities[t][m] /\ ~last'.wrote)]_vars

\* The middle month was resolved first, then the months before and after it; a
\* schedule was generated, an override and preferences were stored; the middle month
\* was resolved again and came back as first stored.
C2_Witness ==
    LET mp == monthlyPriorities["T1"]
    IN /\ DOMAIN mp = {MonthAt(0), MonthAt(1), MonthAt(2)}
       /\ mp[MonthAt(1)] = RotateGroups(baseGroups["T1"])
       /\ mp[MonthAt(0)] = mp[MonthAt(1)]
       /\ mp[MonthAt(2)] = RotateGroups(mp[MonthAt(1)])
       /\ mp[MonthAt(2)] # mp[MonthAt(1)]
       /\ assignments["T1"] # EmptyDict
       /\ shift_overrides["T1"] # EmptyDict
       /\ preferences["A"] # EmptyDict
       /\ last.op = "data" /\ last.team = "T1" /\ last.month = MonthAt(1)
       /\ ~last.wrote /\ last.ret = mp[MonthAt(1)]

\* C10: a what-if analysis leaves every row as it was: the teams' assignments,
\* monthlyPriorities and baseGroups and the engineers' preferences, maxShifts and
\* consecutive_pref (and all the rest of the database).
C10_WhatIfReadOnly ==
    [][last'.op = "analyze" => dbvars' = dbvars]_vars

\* A what-if returned a date for its engineer that the stored schedule of the
\* month does not give that engineer, with no snapshot stored for the month.
C10_Witness ==
    /\ last.op = "analyze" /\ last.status = 200
    /\ \E i \in DOMAIN last.ret :
          /\ assignments["T1"] # EmptyDict
          /\ last.ret[i] \notin DOMAIN assignments["T1"]
    /\ last.month \notin DOMAIN monthlyPriorities["T1"]
    /\ preferences["A"] # EmptyDict /\ preferences["B"] # EmptyDict

\* What the simulator returns for month m on the current database, and a team's
\* share of one day of it
SimulatedNow(m) ==
    RunScheduleSimulation(m, TeamRows, TeamsData, EngineersData, holidays, NoTemp)
TeamShare(final, d, t) ==
    IF d \in DOMAIN final THEN SelectSeq(final[d], LAMBDA n : n \in TeamEngineers(t))
    ELSE <<>>
InMonth(dict, m) == {d \in DOMAIN dict : StartsWith(d, m)}

\* The requests that change a team's roster or grouping
RosterOps == {"add_engineer", "delete_engineer", "rebalance"}

\* C12: every roster or grouping change of a team (add engineer, delete engineer,
\* rebalance) leaves that team's monthlyPriorities empty and every other team's
\* monthlyPriorities as it was.
C12_RosterChangeClearsCache ==
    [][(last'.op \in RosterOps /\ last'.status = 200)
       => /\ monthlyPriorities'[last'.team] = EmptyDict
          /\ \A u \in Teams \ {last'.team} :
                monthlyPriorities'[u] = monthlyPriorities[u]]_vars

\* A roster change of T1 has cleared stored months of T1 while T2 keeps its own.
C12_Witness ==
    /\ last.op \in RosterOps /\ last.team = "T1" /\ last.wrote
    /\ monthlyPriorities["T1"] = EmptyDict
    /\ monthlyPriorities["T2"] # EmptyDict

\* s is a list (not None) of values of S
IsListOf(s, S) == DOMAIN s = 1..Len(s) /\ \A i \in DOMAIN s : s[i] \in S
\* how often n occurs in the groups
Occurrences(groups, n) ==
    Cardinality({p \in (DOMAIN groups) \X (1..Cardinality(Names)) :
                    p[2] \in DOMAIN groups[p[1]] /\ groups[p[1]][p[2]] = n})

\* C13: after any sequence of team creations, adds, deletes and rebalances, every
\* team's baseGroups is a list of groups (never null, groups possibly empty), every
\* group a list of names, and every name in it occurs in one group only and once.
C13_BaseGroupsPartition ==
    \A t \in Teams :
        /\ DOMAIN baseGroups[t] = 1..Len(baseGroups[t])
        /\ \A i \in DOMAIN baseGroups[t] : IsListOf(baseGroups[t][i], Names)
        /\ \A n \in Names : Occurrences(baseGroups[t], n) <= 1

\* An engineer was added back to a team of three that a rebalance had split into
\* two groups and a delete had thinned.
C13_Witness ==
    /\ last.op = "add_engineer" /\ last.status = 200 /\ last.team = "T1"
    /\ Len(baseGroups["T1"]) = 2
    /\ \A n \in {"A", "B", "C"} : Occurrences(baseGroups["T1"], n) = 1

\* C14: the calendar function returns the same on-call day list for holidays given
\* as plain date strings as for the same dates given as {date, note} records.
C14_HolidayFormsAgree ==
    cal.pc = "done" =>
        \A form \in CalForms :
            GetOnCallDaysPure(cal.year, cal.month, InForm(cal.dates, form))
               = [raised |-> FALSE, days |-> cal.days]

\* 2025-10-04 is a Saturday; a date is a Saturday or a Sunday when it lies a
\* multiple of seven days, or one day more, after it.
IsSaturdayOrSunday(y, mo, d) == (Ordinal(y, mo, d) - Ordinal(2025, 10, 4)) % 7 \in {0, 1}
\* The dates of the month y-mo that are a Saturday, a Sunday or one of dates
ExpectedOnCallDays(y, mo, dates) ==
    {DateStr(y, mo, d) : d \in
        {d \in 1..31 :
            /\ d <= (IF mo = 2 THEN (IF y % 4 = 0 /\ (y % 100 # 0 \/ y % 400 = 0) THEN 29 ELSE 28)
                     ELSE IF mo \in {4, 6, 9, 11} THEN 30 ELSE 31)
            /\ \/ IsSaturdayOrSunday(y, mo, d)
               \/ \E i \in DOMAIN dates : dates[i] = DateStr(y, mo, d)}}

\* C15: for a valid year and month the calendar function returns, in ascending
\* order and without duplicates, exactly the dates of the month that are a
\* Saturday, a Sunday or a listed holiday: a holiday of another month adds nothing
\* and a holiday on a weekend appears once.
C15_OnCallDaysExact ==
    (cal.pc = "done" /\ ~cal.raised) =>
        /\ \A i \in 1..(Len(cal.days) - 1) : cal.days[i] < cal.days[i + 1]
        /\ Range(cal.days) = ExpectedOnCallDays(cal.year, cal.month, cal.dates)

\* The call returned for October 2025 with a weekend holiday, a weekday holiday
\* and a holiday of November listed.
C15_Witness ==
    /\ cal.pc = "done" /\ ~cal.raised
    /\ cal.year = 2025 /\ cal.month = 10
    /\ Range(cal.dates) = {Sat4, Mon6, DateStr(2025, 11, 3)}
    /\ Mon6 \in Range(cal.days)
    /\ Len(cal.days) = 9

\* C16: engineer names are unique ignoring letter case.  In every state no two
\* engineers have names that are equal up to case; an add is accepted only for a
\* name that matched no engineer's name up to case, and an add that is rejected as a
\* conflict leaves the engineers, baseGroups and monthlyPriorities as they were.
C16_NamesUniqueIgnoringCase ==
    /\ [](\A e1, e2 \in Engineers : Lower(e1) = Lower(e2) => e1 = e2)
    /\ [][(last'.op = "add_engineer" /\ last'.status = 200)
            => \A e \in Engineers : Lower(e) # Lower(last'.ret)]_vars
    /\ [][(last'.op = "add_engineer" /\ last'.status = 409)
            => /\ \E e \in Engineers : Lower(e) = Lower(last'.ret)
               /\ UNCHANGED <<team_id, maxShifts, consecutive_pref, preferences,
                              baseGroups, monthlyPriorities>>]_vars

\* "a" was refused on a team that has "A", a second engineer and stored months.
C16_Witness ==
    /\ last.op = "add_engineer" /\ last.status = 409 /\ last.ret = "a"
    /\ team_id["A"] = "T1" /\ team_id["a"] = NoTeam
    /\ Cardinality(TeamEngineers("T1")) >= 2
    /\ monthlyPriorities["T1"] # EmptyDict

\* C17: without roster edits, the ranking a schedule generation uses for a team
\* and month m is the flattened snapshot of the rotation store: it equals the
\* order a resolve of that team and month returned before the generation (the
\* stored snapshot) and the order any resolve of them returns after it.
C17_GenerationUsesStoredRanking ==
    /\ [][(last'.op = "generate" /\ last'.status = 200)
            => \A t \in teams :
                  last'.month \in DOMAIN monthlyPriorities[t]
                  => sim'.ranking[t] =
                        Flatten(ReturnedGroups(monthlyPriorities[t], team_id, last'.month))]_vars
    /\ [][(last'.op = "data" /\ sim.pc = "generated" /\ last'.month = sim.month)
            => Flatten(last'.ret) = sim.ranking[last'.team]]_vars

\* C18: a preferred date that is not an on-call day of the month is passed over
\* and the scan goes on with the engineer's next preference: no run ends in an
\* exception, and a run whose lists hold such dates still returns a roster.
C18_NonOnCallDateSkipped ==
    /\ sim.pc # "raised"
    /\ (sim.pc = "returned" /\ \E n \in Engineers : \E i \in DOMAIN PrefsOf(n) :
                                   ~IsOnCallDay(PrefsOf(n)[i]))
          => DOMAIN sim.final = Range(sim.on_call_days)

\* C19: in every pass, every engineer visited while on fewer days than the cap is
\* put on exactly one day, the first date of the engineer's list that is acceptable
\* when the engineer is visited (an on-call day, below its capacity, not yet the
\* engineer's, and with neither neighbouring on-call day the engineer's when the
\* engineer avoids adjacent days), and on no day when no date of the list is
\* acceptable; nobody gains more than one day in a pass.
NeighbourDays(days, d) ==
    {x \in days : x < d /\ \A y \in days : y < d => y <= x}
        \cup {x \in days : x > d /\ \A y \in days : y > d => y >= x}
Acceptable(n, st, d) ==
    /\ IsOnCallDay(d)
    /\ Len(st.ta[d]) < EffectiveCapacity(SimTeam, d)
    /\ ~Contains(st.ta[d], n)
    /\ consecutive_pref[n] = "avoid" =>
          \A x \in NeighbourDays(DOMAIN st.ta, d) : ~Contains(st.ta[x], n)
FirstAcceptable(n, st) ==
    {j \in DOMAIN PrefsOf(n) :
        /\ Acceptable(n, st, PrefsOf(n)[j])
        /\ \A k \in 1..(j - 1) : ~Acceptable(n, st, PrefsOf(n)[k])}
VisitGave(n, before, after) ==
    IF FirstAcceptable(n, before) = {} THEN after.ta = before.ta
    ELSE \E j \in FirstAcceptable(n, before) :
             after.ta = [before.ta EXCEPT ![PrefsOf(n)[j]] = Append(@, n)]
C19_FirstAcceptableDate ==
    [][(sim.pc = "passes" /\ sim'.pass = sim.pass + 1) =>
          \E plist \in {MonthlyPriorityList(SimTeam, TeamsData[SimTeam], sim.engs,
                                            sim.month)} :
          \E tr \in {PassStates(sim.st, plist, sim.engs, TeamsData[SimTeam], sim.month,
                                sim.on_call_days)} :
              /\ tr[Len(plist) + 1] = sim'.st
              /\ \A i \in DOMAIN plist :
                    Cardinality(DaysListing(tr[i].ta, plist[i])) < Cap(plist[i]) =>
                        VisitGave(plist[i], tr[i], tr[i + 1])
              /\ \A n \in TeamEngineers(SimTeam) :
                    Cardinality(DaysListing(sim'.st.ta, n))
                        <= Cardinality(DaysListing(sim.st.ta, n)) + 1]_vars

\* C20 (as claimed): in a team's part of the returned roster, whenever a day d holds
\* as many of the team's engineers as its capacity and an engineer e of the team
\* who listed d is not on d, is on fewer days than the cap and, when avoiding
\* adjacent days, is on neither neighbouring on-call day of d, every engineer of the
\* team on d is ranked ahead of e (an engineer the ranking leaves out is behind
\* everyone in it).
RankedAhead(t, f, e) == Ranked(t, f) /\ (Ranked(t, e) => Rank(t, f) < Rank(t, e))
BarredByAdjacency(e, d) ==
    /\ consecutive_pref[e] = "avoid"
    /\ \E x \in NeighbourDays(DOMAIN sim.final, d) : Contains(sim.final[x], e)
LostDay(t, e, d) ==
    /\ Len(TeamShare(sim.final, d, t)) = EffectiveCapacity(t, d)
    /\ Contains(PrefsOf(e), d) /\ ~Contains(sim.final[d], e)
    /\ Cardinality(DaysListing(sim.final, e)) < Cap(e)
    /\ ~BarredByAdjacency(e, d)
HoldsEarlierChoice(e, d) ==
    \E j \in DOMAIN PrefsOf(e) : \E i \in 1..(j - 1) :
        /\ PrefsOf(e)[j] = d
        /\ PrefsOf(e)[i] \in DOMAIN sim.final
        /\ Contains(sim.final[PrefsOf(e)[i]], e)
C20_EarlierRankedFirstClaim ==
    sim.pc = "returned" =>
        \A t \in teams : \A d \in DOMAIN sim.final : \A e \in TeamEngineers(t) :
            LostDay(t, e, d) =>
                \A f \in Range(TeamShare(sim.final, d, t)) : RankedAhead(t, f, e)

\* C20 (amended): under the same conditions every engineer of the team on d is
\* ranked ahead of e, unless e is on a date that e listed ahead of d.
C20_FirstClaimUnlessEarlierChoice ==
    sim.pc = "returned" =>
        \A t \in teams : \A d \in DOMAIN sim.final : \A e \in TeamEngineers(t) :
            (LostDay(t, e, d) /\ ~HoldsEarlierChoice(e, d)) =>
                \A f \in Range(TeamShare(sim.final, d, t)) : RankedAhead(t, f, e)

\* A ranked engineer who holds no earlier choice lost a listed day, full at a
\* capacity of at least 1, to a colleague ranked ahead, with a cap of 2 and the
\* day listed second.
C20_Witness ==
    /\ sim.pc = "returned"
    /\ \E d \in DOMAIN sim.final : \E e \in TeamEngineers("T1") :
          /\ LostDay("T1", e, d) /\ ~HoldsEarlierChoice(e, d)
          /\ EffectiveCapacity("T1", d) >= 1
          /\ Cap(e) = 2 /\ Len(PrefsOf(e)) = 2 /\ PrefsOf(e)[2] = d

\* C21: after every pass and in the result, an engineer whose consecutive_pref is
\* 'avoid' is never on two on-call days that are neighbours in the month's ordered
\* list of on-call days; a ranked engineer whose setting is 'neutral' and who ends
\* below the cap has been refused no listed on-call day for its neighbours: every
\* such day not the engineer's is full.
OnNeighbouringDays(lists, n) ==
    \E d \in DOMAIN lists : \E x \in NeighbourDays(DOMAIN lists, d) :
        Contains(lists[d], n) /\ Contains(lists[x], n)
C21_AvoidAdjacentRespected ==
    /\ sim.pc = "passes" =>
          \A n \in Engineers :
              consecutive_pref[n] = "avoid" => ~OnNeighbouringDays(sim.st.ta, n)
    /\ SimResultReady =>
          \A n \in Engineers :
              consecutive_pref[n] = "avoid" => ~OnNeighbouringDays(sim.final, n)
    /\ sim.pc = "returned" =>
          \A t \in teams : \A n \in TeamEngineers(t) :
              (/\ consecutive_pref[n] = "neutral" /\ Ranked(t, n)
               /\ Cardinality(DaysListing(sim.final, n)) < Cap(n))
              => \A i \in DOMAIN PrefsOf(n) :
                    \/ ~IsOnCallDay(PrefsOf(n)[i])
                    \/ Contains(sim.final[PrefsOf(n)[i]], n)
                    \/ Len(TeamShare(sim.final, PrefsOf(n)[i], t))
                           >= EffectiveCapacity(t, PrefsOf(n)[i])

\* An avoiding engineer with cap 2 who listed a Sunday and then its Saturday is on
\* the Sunday only, though the Saturday has room.
C21_Witness ==
    /\ sim.pc = "returned"
    /\ consecutive_pref["A"] = "avoid" /\ Cap("A") = 2
    /\ PrefsOf("A") = <<Sun5, Sat4>>
    /\ DaysListing(sim.final, "A") = {Sun5}
    /\ TeamShare(sim.final, Sat4, "T1") = <<>>
    /\ EffectiveCapacity("T1", Sat4) >= 1

\* C22: a team's passes stop at max(maxShifts); when they have, every engineer of
\* the team on fewer days than the cap has no acceptable date left in the list; and
\* an engineer who, visited below the cap, finds no acceptable date has none after
\* the pass either and gains no day in a later pass.
NothingAcceptable(n, st) ==
    \A i \in DOMAIN PrefsOf(n) : ~Acceptable(n, st, PrefsOf(n)[i])
StillBelowCap(n, st) == Cardinality(DaysListing(st.ta, n)) < Cap(n)
TeamDone == sim.pc = "passes" /\ sim.pass = MaxShiftsRequested(SimTeam, sim.engs)
RosterMaximal(members) ==
    \A n \in members : StillBelowCap(n, sim.st) => NothingAcceptable(n, sim.st)
SkippedStaysSkipped ==
    (sim.pc = "passes" /\ sim'.pc = "passes" /\ sim'.pass = sim.pass + 1) =>
        \E plist \in {MonthlyPriorityList(SimTeam, TeamsData[SimTeam], sim.engs,
                                          sim.month)} :
        \E tr \in {PassStates(sim.st, plist, sim.engs, TeamsData[SimTeam], sim.month,
                              sim.on_call_days)} :
            /\ \A i \in DOMAIN plist :
                  (StillBelowCap(plist[i], tr[i]) /\ NothingAcceptable(plist[i], tr[i]))
                      => NothingAcceptable(plist[i], sim'.st)
            /\ \A n \in Range(plist) :
                  (StillBelowCap(n, sim.st) /\ NothingAcceptable(n, sim.st))
                      => /\ DaysListing(sim'.st.ta, n) = DaysListing(sim.st.ta, n)
                         /\ NothingAcceptable(n, sim'.st)
C22_MaximalRoster ==
    /\ [](sim.pc = "passes" => sim.pass <= MaxShiftsRequested(SimTeam, sim.engs))
    /\ [](TeamDone => RosterMaximal(TeamEngineers(SimTeam)))
    /\ [][SkippedStaysSkipped]_vars

\* C23: a what-if analysis leaves the live engineer records as they were: the
\* preferences held by the Engineer objects of the request's session are the stored
\* ones after the analysis, and the stored preferences and maxShifts are unchanged.
C23_WhatIfSharesNothing ==
    [][last'.op = "analyze" =>
          /\ live_preferences' = preferences
          /\ preferences' = preferences
          /\ maxShifts' = maxShifts]_vars

\* C24: a what-if analysis that names an engineer who does not exist, and a
\* generation or what-if analysis run while a team has a negative per-day capacity,
\* is answered with an error and leaves the database as it was.
NegativeCapacity ==
    \E t \in teams :
        \/ shifts_per_day[t] < 0
        \/ \E d \in DOMAIN shift_overrides[t] : shift_overrides[t][d] < 0
Rejected == last'.status >= 400 /\ UNCHANGED dbvars
C24_InvalidInputRejected ==
    [][/\ \A w \in WhatIfPayloads \cup UnknownEngineerPayloads :
             (/\ w.engineer \notin Engineers \/ NegativeCapacity
              /\ AnalyzeChances(w.month, w.engineer, w.preferences, w.maxShifts))
             => Rejected
       /\ \A m \in Months : (NegativeCapacity /\ GenerateSchedule(m)) => Rejected]_vars

\* C25: whatever the interleaving of resolve requests, a month's snapshot is never
\* committed when the team already has one for the month, and a stored snapshot is
\* never dropped or replaced by a different value.
C25_SnapshotCommittedOnce ==
    [][/\ \A r \in Reqs :
             (/\ reqs[r].pc = "resolve" /\ reqs'[r].pc = "idle"
              /\ CacheMiss(reqs[r].monthly_priorities, reqs[r].month))
             => CacheMiss(monthlyPriorities[reqs[r].team], reqs[r].month)
       /\ \A t \in teams : \A m \in DOMAIN monthlyPriorities[t] :
             /\ m \in DOMAIN monthlyPriorities'[t]
             /\ monthlyPriorities'[t][m] = monthlyPriorities[t][m]]_vars

\* C26: whatever the interleaving of generate requests, a generation leaves every
\* team with exactly its run's result on the days of its month and with the entries
\* of every other month as they were committed before, so no generated month is lost.
C26_GenerationAtomic ==
    [][\A r \in Reqs :
          (reqs[r].pc = "generate" /\ reqs'[r].pc = "idle" /\ last'.status = 200) =>
              \A t \in teams :
                 /\ \A d \in InMonth(assignments'[t], reqs[r].month) :
                       assignments'[t][d] = TeamShare(last'.ret, d, t)
                 /\ InMonth(assignments'[t], reqs[r].month) =
                       {d \in InMonth(last'.ret, reqs[r].month) :
                           TeamShare(last'.ret, d, t) # <<>>}
                 /\ \A d \in (DOMAIN assignments[t]) \ InMonth(assignments[t], reqs[r].month) :
                       d \in DOMAIN assignments'[t] /\ assignments'[t][d] = assignments[t][d]]_vars

\* C11: a schedule generation for month m that succeeds replaces every team's
\* assignments of m by the simulator's result restricted to the team's engineers
\* (a day is an entry exactly when somebody of the team is on it; nothing of the
\* previous schedule of m, manual swaps included, survives) and leaves the team's
\* entries of every other month as they were.
C11_RegenerationReplaces ==
    [][(last'.op = "generate" /\ last'.status = 200)
       => \E m \in {last'.month} : \E final \in {SimulatedNow(m).final} :
             \A t \in teams :
                /\ InMonth(assignments'[t], m) =
                      {d \in InMonth(final, m) : TeamShare(final, d, t) # <<>>}
                /\ \A d \in InMonth(assignments'[t], m) :
                      assignments'[t][d] = TeamShare(final, d, t)
                /\ (DOMAIN assignments'[t]) \ InMonth(assignments'[t], m) =
                      (DOMAIN assignments[t]) \ InMonth(assignments[t], m)
                /\ \A d \in (DOMAIN assignments[t]) \ InMonth(assignments[t], m) :
                      assignments'[t][d] = assignments[t][d]]_vars

\* A generation has replaced a schedule of the month that had, as after a manual
\* swap, other names on 2025-10-04 than the new result has.
C11_Witness ==
    /\ last.op = "generate" /\ last.status = 200 /\ last.month = SimMonth
    /\ Sat4 \in DOMAIN last.ret["T1"]
    /\ Sat4 \in DOMAIN assignments["T1"]
    /\ last.ret["T1"][Sat4] # assignments["T1"][Sat4]
    /\ Len(last.ret["T1"][Sat4]) = Len(assignments["T1"][Sat4])

\* ------------------------------------------------- claims: rotation store
\* s shifted cyclically to the left by k places
CyclicShift(s, k) == [i \in 1..Len(s) |-> s[((i - 1 + k) % Len(s)) + 1]]
\* groups with the group sequence and every group's members shifted by k places
ShiftedGroups(groups, k) ==
    LET g == CyclicShift(groups, k)
    IN [i \in 1..Len(g) |-> CyclicShift(g[i], k)]
\* s without the elements outside S, order kept
Restrict(s, S) == SelectSeq(s, LAMBDA x : x \in S)
\* how many stored months of mp are at or before m
StoredRank(mp, m) == Cardinality({k \in DOMAIN mp : k <= m})

\* C1: resolvePriority is idempotent: a call for the team and month of the call just
\* before it returns the same ordered groups as that call, performs no write, and
\* leaves monthlyPriorities as it was.
C1_ResolveIdempotent ==
    [][(/\ last.op = "resolve" /\ last'.op = "resolve"
        /\ last'.team = last.team /\ last'.month = last.month)
       => (/\ last'.ret = last.ret
           /\ ~last'.wrote
           /\ monthlyPriorities' = monthlyPriorities)]_vars

\* A second call in a row has been served for a team of two ranked engineers.
C1_Witness ==
    /\ last.op = "resolve" /\ ~last.wrote
    /\ Len(Flatten(last.ret)) >= 2

\* C3: on a cache miss the value stored and returned is one rotation step from the
\* base: the snapshot of the greatest stored month before m (baseGroups if none),
\* without the names that are not engineers of the team, its group sequence and
\* each group shifted by one place; no other month's entry changes.
C3_Expected(t, m) ==
    LET mp == monthlyPriorities[t]
        earlier == {k \in DOMAIN mp : k < m}
        base == IF earlier = {} THEN baseGroups[t]
                ELSE mp[CHOOSE k \in earlier : \A j \in earlier : j <= k]
        kept == [i \in 1..Len(base) |-> Restrict(base[i], TeamEngineers(t))]
    IN ShiftedGroups(kept, 1)

C3_CacheMissRotation ==
    [][(last'.op = "resolve" /\ last'.wrote)
       => LET t == last'.team
              m == last'.month
          IN /\ m \notin DOMAIN monthlyPriorities[t]
             /\ monthlyPriorities'[t] = Put(monthlyPriorities[t], m, C3_Expected(t, m))
             /\ last'.ret = C3_Expected(t, m)
             /\ \A u \in Teams \ {t} : monthlyPriorities'[u] = monthlyPriorities[u]]_vars

\* A miss was served from the snapshot of a month that is not the calendar month
\* before it, for a team of two groups, one of them of two engineers.
C3_Witness ==
    /\ last.op = "resolve" /\ last.wrote
    /\ LET mp == monthlyPriorities[last.team]
       IN /\ DOMAIN mp = {MonthAt(0), MonthAt(2)}
          /\ last.month = MonthAt(2)
          /\ Len(mp[MonthAt(2)]) = 2
          /\ \E i \in 1..2 : Len(mp[MonthAt(2)][i]) = 2
          /\ mp[MonthAt(2)] = ShiftedGroups(mp[MonthAt(0)], 1)

\* Every stored snapshot of t is baseGroups shifted by the rank of its month.
Cyclic(mp, base) ==
    \A m \in DOMAIN mp : mp[m] = ShiftedGroups(base, StoredRank(mp, m))
\* A step stores no month of t that precedes an already stored month.
InMonthOrder(mp, mpNext) ==
    \A m \in (DOMAIN mpNext) \ (DOMAIN mp) : \A k \in DOMAIN mp : k < m

\* C4: cyclic invariant.  Starting from an empty cache, resolving months in
\* increasing order keeps each k-th stored month equal to baseGroups with the group
\* sequence shifted by k modulo the group count and every group shifted by k modulo
\* its size.  Stated per step: a step that changes a team's store or groups leaves
\* the store cyclic, unless it stored a month out of order or the store it started
\* from was not cyclic.
C4_CyclicInvariant ==
    [][\A t \in Teams :
         \/ /\ monthlyPriorities'[t] = monthlyPriorities[t]
            /\ baseGroups'[t] = baseGroups[t]
         \/ Cyclic(monthlyPriorities'[t], baseGroups'[t])
         \/ ~InMonthOrder(monthlyPriorities[t], monthlyPriorities'[t])
         \/ ~Cyclic(monthlyPriorities[t], baseGroups[t])]_vars

\* Three months resolved in order for groups of sizes 2 and 1: the third snapshot
\* has wrapped around both the group count and the group of two.
C4_Witness ==
    \E t \in Teams :
        /\ Len(baseGroups[t]) = 2
        /\ Len(baseGroups[t][1]) = 2 /\ Len(baseGroups[t][2]) = 1
        /\ DOMAIN monthlyPriorities[t] = {MonthAt(0), MonthAt(1), MonthAt(2)}
        /\ Cyclic(monthlyPriorities[t], baseGroups[t])
        /\ monthlyPriorities[t][MonthAt(2)] = ShiftedGroups(baseGroups[t], 3)
        /\ monthlyPriorities[t][MonthAt(2)] # monthlyPriorities[t][MonthAt(1)]

\* One rotation step from groups, kept to the members
StepFrom(groups, members) ==
    ShiftedGroups([i \in 1..Len(groups) |-> Restrict(groups[i], members)], 1)

\* C27 (as claimed): when a roster edit of a team (add, delete, rebalance) finds
\* months computed, the first resolve after it of any month that has an earlier
\* month among them is one rotation step from the snapshot of the nearest such
\* month, kept to the members the team now has.
C27_ContinuityAcrossEdits ==
    [][(last'.op \in RosterOps /\ last'.status = 200 /\ last'.wrote) =>
          \E t \in {last'.team} : \E before \in {monthlyPriorities[t]} :
             \A m \in Months :
                {k \in DOMAIN before : k < m} # {} =>
                   SavedPriorities(monthlyPriorities'[t], baseGroups'[t], t, team_id', m)[m]
                      = StepFrom(before[CHOOSE k \in DOMAIN before :
                                           k < m /\ \A j \in DOMAIN before : j < m => j <= k],
                                 {n \in Names : team_id'[n] = t})]_vars

\* C27 (amended): a roster edit of a team leaves none of its months computed, so
\* the first resolve after it, of whatever month, is one rotation step from the
\* team's baseGroups as the edit left them, kept to the current members, and is
\* then the team's only stored month.
C27_EditRestartsFromBaseGroups ==
    [][/\ (last'.op \in RosterOps /\ last'.status = 200) =>
             \A m \in Months :
                SavedPriorities(monthlyPriorities'[last'.team], baseGroups'[last'.team],
                                last'.team, team_id', m)
                   = Put(EmptyDict, m, StepFrom(baseGroups'[last'.team],
                                                {n \in Names : team_id'[n] = last'.team}))
       /\ (/\ last.op \in RosterOps /\ last.status = 200
           /\ last'.op = "resolve" /\ last'.team = last.team) =>
             /\ last'.wrote
             /\ monthlyPriorities'[last.team] =
                   Put(EmptyDict, last'.month,
                       StepFrom(baseGroups[last.team], TeamEngineers(last.team)))
             /\ last'.ret = StepFrom(baseGroups[last.team], TeamEngineers(last.team))]_vars

\* A roster edit found months computed for a team that now has at least two
\* engineers, whose baseGroups a rotation step changes; a resolve comes next.
C27_Witness ==
    /\ last.op \in RosterOps /\ last.status = 200 /\ last.wrote
    /\ Cardinality(TeamEngineers(last.team)) >= 2
    /\ monthlyPriorities[last.team] = EmptyDict
    /\ StepFrom(baseGroups[last.team], TeamEngineers(last.team)) # baseGroups[last.team]

\* The nearest month before m among the stored ones
NearestEarlier(mp, m) ==
    CHOOSE k \in DOMAIN mp : k < m /\ \A j \in DOMAIN mp : j < m => j <= k

\* Every stored month that has an earlier stored month is one rotation step from
\* the nearest of them, and the earliest stored month is one step from base
Chained(mp, base, members) ==
    \A m \in DOMAIN mp :
        IF {k \in DOMAIN mp : k < m} # {}
        THEN mp[m] = ShiftedGroups(mp[NearestEarlier(mp, m)], 1)
        ELSE mp[m] = StepFrom(base, members)

\* C28 (as claimed): in every reachable state, whatever the order in which the
\* months were requested, each stored snapshot of a month that has an earlier
\* stored month is one rotation step from the snapshot of the nearest earlier
\* stored month, and the earliest stored month is one step from baseGroups.
C28_ChainedWhateverOrder ==
    \A t \in Teams : Chained(monthlyPriorities[t], baseGroups[t], TeamEngineers(t))

\* C28 (amended): the same, for a store whose months were requested in increasing
\* order.  Stated per step: a step that changes a team's store or groups leaves
\* the store chained, unless it stored a month earlier than one already stored or
\* the store it started from was not chained.
C28_ChainedInMonthOrder ==
    [][\A t \in Teams :
         \/ /\ monthlyPriorities'[t] = monthlyPriorities[t]
            /\ baseGroups'[t] = baseGroups[t]
         \/ Chained(monthlyPriorities'[t], baseGroups'[t],
                    {n \in Names : team_id'[n] = t})
         \/ ~InMonthOrder(monthlyPriorities[t], monthlyPriorities'[t])
         \/ ~Chained(monthlyPriorities[t], baseGroups[t], TeamEngineers(t))]_vars

\* Three months stored in order for a team of two engineers in one group: the
\* third is a step from the second, which differs from the first and from a step
\* from the first.
C28_Witness ==
    \E t \in Teams :
        /\ DOMAIN monthlyPriorities[t] = {MonthAt(0), MonthAt(1), MonthAt(2)}
        /\ Cardinality(TeamEngineers(t)) >= 2
        /\ Chained(monthlyPriorities[t], baseGroups[t], TeamEngineers(t))
        /\ monthlyPriorities[t][MonthAt(1)] # monthlyPriorities[t][MonthAt(0)]
        /\ monthlyPriorities[t][MonthAt(2)]
              # ShiftedGroups(monthlyPriorities[t][MonthAt(0)], 1)

\* The engineers named in groups
InGroups(groups) ==
    {n \in Names : \E i \in 1..Len(groups) : \E j \in 1..Len(groups[i]) : groups[i][j] = n}

\* C29: after any sequence of add-engineer, delete-engineer and rebalance
\* operations every engineer of a team is named in the team's baseGroups, and an
\* add or a delete of one engineer removes from baseGroups no engineer that still
\* belongs to the team.
C29_MembersStayInBaseGroups ==
    /\ [](\A t \in teams : TeamEngineers(t) \subseteq InGroups(baseGroups[t]))
    /\ [][last'.op \in {"add_engineer", "delete_engineer"} =>
            \A t \in teams' :
               (InGroups(baseGroups[t]) \ InGroups(baseGroups'[t]))
                  \cap {n \in Names : team_id'[n] = t} = {}]_vars
====
